---- MODULE Spec2Model ----
(***************************************************************************)
(* A model of the 4-D Neuroimaging / BTi reader of mne-python              *)
(* (src/mne/fiff/bti.py): the lazy sample reader read_raw_data, the        *)
(* processed-data-file assembler read_pdf_info, the block realignment      *)
(* _correct_offset, the config-file decoders and the 4x4 transform         *)
(* helpers.  Python's None is the empty tuple <<>>, an optional integer n  *)
(* is <<n>>.  Exceptions are result records whose kind is the exception's  *)
(* class name.                                                             *)
(***************************************************************************)
EXTENDS Integers, Sequences, FiniteSets, TLC

VARIABLES
    info,      \* the info structure read_raw_data is given
    fidpos,    \* byte position of the retained handle info['fid']
    call,      \* the arguments of the last read_raw_data call
    ret,       \* what the last call returned or raised
    pdf,       \* the processed data file read_pdf_info is given
    pc,        \* where read_pdf_info stands
    rinfo,     \* the info dictionary read_pdf_info is building
    log,       \* the record decoders called so far, in call order
    fds,       \* the handles on the file that are open
    pret,      \* how read_pdf_info ended
    cur,       \* position of a stream the decoders read
    last,      \* the last operation on that stream and where it started
    cfgfile,   \* the config file read_config is given
    cpc,       \* where read_config stands
    cret,      \* how read_config ended
    ucall,     \* the last direct call of a config record decoder
    uret,      \* what that call returned or raised
    xarg,      \* the transform x handed to the transform helpers
    targ,      \* the transform t handed to them
    xop,       \* the helper composition that was applied
    xres,      \* its result
    names,     \* the label list _rename_channels is given
    rpc,       \* where the generator of the current call stands
    ri,        \* how many labels the current call has consumed
    counters,  \* the next value of each itertools.count of the current call
    yielded,   \* the names the current call has yielded
    earlier,   \* what the call before the current one yielded
    bcall,     \* the call on RawBTi or a reader of its files, and its arguments
    bpc,       \* the statement that call has reached
    bret,      \* how that call ended
    stream,    \* the bytes of a file the primitive readers read
    spos,      \* the position of that file
    prim,      \* the last primitive reader called, and its count
    pval,      \* what it returned or raised
    drec,      \* the record decoder called, where the record starts, and its strings
    dpc,       \* whether that decoder has returned
    dend,      \* the position of the stream when it returned
    fit,       \* the decomposition each ICA object holds
    saved,     \* the decomposition in the file written by save
    ilast,     \* the last method called, on which object, and how it ended
    exclude,   \* ica.exclude, a list of component indices
    exfile,    \* the exclude list in the file written by save
    exread,    \* the exclude list of the object read_ica returned
    elast,     \* the last call on the fitted object and its exclude argument
    tcur,      \* the stream position after the last editor-class record
    tftr,      \* ftr_pos, where the footer pointer starts
    extradata, \* the byte offsets whose bytes info['extradata'] holds, in order
    tpc,       \* whether the trailing data has been captured
    hsize,     \* the size of the processed data file
    hptr,      \* the 64-bit pointer in its last 8 bytes
    hpos,      \* hdr_pos, where the header is decoded from
    hend,      \* the stream position when _read_bti_header returns
    hpc,       \* how far _read_bti_header has come, or the error it raised
    hsarg,     \* convert_head_shape's arguments: the numbers of index and dig points, use_hpi
    hsidx,     \* idx of the loop over all_points
    dig,       \* the list of point_info appended so far
    hspc,      \* whether convert_head_shape loops or has returned
    nearest,   \* patch_info's argument: None or a vector of vertex numbers
    pinfo,     \* what patch_info returned
    ppc,       \* whether patch_info has returned
    ssarg,     \* read_source_spaces' arguments and the tags of the file's source spaces
    sfid,      \* whether fid is open
    this,      \* what _read_one_source_space returned last
    nsrc,      \* len(src), the source spaces appended
    spc,       \* the statement read_source_spaces is at, or how it ended
    sexc       \* the exception it raised

rawvars == <<info, fidpos, call, ret>>
pdfvars == <<pdf, pc, rinfo, log, fds, pret>>
offvars == <<cur, last>>
cfgvars == <<cfgfile, cpc, cret, ucall, uret>>
xfmvars == <<xarg, targ, xop, xres>>
rnvars == <<names, rpc, ri, counters, yielded, earlier>>
btivars == <<bcall, bpc, bret>>
primvars == <<stream, spos, prim, pval>>
decvars == <<drec, dpc, dend>>
icavars == <<fit, saved, ilast>>
excvars == <<exclude, exfile, exread, elast>>
tailvars == <<tcur, tftr, extradata, tpc>>
hdrvars == <<hsize, hptr, hpos, hend, hpc>>
hsvars == <<hsarg, hsidx, dig, hspc>>
pivars == <<nearest, pinfo, ppc>>
ssvars == <<ssarg, sfid, this, nsrc, spc, sexc>>

\* What the actions of one group leave alone: the variables of the others.
notraw == <<pdfvars, offvars, cfgvars, xfmvars, rnvars, btivars, primvars, decvars, icavars, excvars, tailvars, hdrvars, hsvars, pivars, ssvars>>
notpdf == <<rawvars, offvars, cfgvars, xfmvars, rnvars, btivars, primvars, decvars, icavars, excvars, tailvars, hdrvars, hsvars, pivars, ssvars>>
notoff == <<rawvars, pdfvars, cfgvars, xfmvars, rnvars, btivars, primvars, decvars, icavars, excvars, tailvars, hdrvars, hsvars, pivars, ssvars>>
notcfg == <<rawvars, pdfvars, offvars, xfmvars, rnvars, btivars, primvars, decvars, icavars, excvars, tailvars, hdrvars, hsvars, pivars, ssvars>>
notxfm == <<rawvars, pdfvars, offvars, cfgvars, rnvars, btivars, primvars, decvars, icavars, excvars, tailvars, hdrvars, hsvars, pivars, ssvars>>
notrn == <<rawvars, pdfvars, offvars, cfgvars, xfmvars, btivars, primvars, decvars, icavars, excvars, tailvars, hdrvars, hsvars, pivars, ssvars>>
notbti == <<rawvars, pdfvars, offvars, cfgvars, xfmvars, rnvars, primvars, decvars, icavars, excvars, tailvars, hdrvars, hsvars, pivars, ssvars>>
notprim == <<rawvars, pdfvars, offvars, cfgvars, xfmvars, rnvars, btivars, decvars, icavars, excvars, tailvars, hdrvars, hsvars, pivars, ssvars>>
notdec == <<rawvars, pdfvars, offvars, cfgvars, xfmvars, rnvars, btivars, primvars, icavars, excvars, tailvars, hdrvars, hsvars, pivars, ssvars>>
notica == <<rawvars, pdfvars, offvars, cfgvars, xfmvars, rnvars, btivars, primvars, decvars, excvars, tailvars, hdrvars, hsvars, pivars, ssvars>>
notexc == <<rawvars, pdfvars, offvars, cfgvars, xfmvars, rnvars, btivars, primvars, decvars, icavars, tailvars, hdrvars, hsvars, pivars, ssvars>>
nottail == <<rawvars, pdfvars, offvars, cfgvars, xfmvars, rnvars, btivars, primvars, decvars, icavars, excvars, hdrvars, hsvars, pivars, ssvars>>
nothdr == <<rawvars, pdfvars, offvars, cfgvars, xfmvars, rnvars, btivars, primvars, decvars, icavars, excvars, tailvars, hsvars, pivars, ssvars>>
noths == <<rawvars, pdfvars, offvars, cfgvars, xfmvars, rnvars, btivars, primvars, decvars, icavars, excvars, tailvars, hdrvars, pivars, ssvars>>
notpi == <<rawvars, pdfvars, offvars, cfgvars, xfmvars, rnvars, btivars, primvars, decvars, icavars, excvars, tailvars, hdrvars, hsvars, ssvars>>
notss == <<rawvars, pdfvars, offvars, cfgvars, xfmvars, rnvars, btivars, primvars, decvars, icavars, excvars, tailvars, hdrvars, hsvars, pivars>>
vars == <<info, fidpos, call, ret, pdf, pc, rinfo, log, fds, pret, cur, last,
          cfgfile, cpc, cret, ucall, uret, xarg, targ, xop, xres,
          names, rpc, ri, counters, yielded, earlier,
          bcall, bpc, bret,
          stream, spos, prim, pval,
          drec, dpc, dend,
          fit, saved, ilast,
          exclude, exfile, exread, elast,
          tcur, tftr, extradata, tpc,
          hsize, hptr, hpos, hend, hpc,
          hsarg, hsidx, dig, hspc,
          nearest, pinfo, ppc,
          ssarg, sfid, this, nsrc, spc, sexc>>

None == <<>>
Some(n) == <<n>>

-----------------------------------------------------------------------------
(* Bounds of the model.                                                    *)

MaxChans == 2
MaxSlices == 2
MaxEpochs == 2
MaxRecs == 1
MaxPos == 40
MaxBlocks == 2
MaxNames == 3
MaxRuns == 2
MaxBytes == 4

-----------------------------------------------------------------------------
(* Python 2 values the reader computes with.                               *)

\* ord() of the characters channel labels are built from in the model.
Ord(ch) ==
    CASE ch = "0" -> 48 [] ch = "1" -> 49 [] ch = "2" -> 50
      [] ch = "A" -> 65 [] ch = "E" -> 69 [] ch = "T" -> 84

IsDigit(ch) == Ord(ch) >= 48 /\ Ord(ch) <= 57

\* Channel labels as bti_read_str returns them: A2, A10, an EOG-like and a
\* trigger-like label, the bare prefix A, and the empty label.
Labels ==
    { <<"A", "2">>, <<"A", "1", "0">>, <<"E">>, <<"T">>, <<"A">>, <<>> }

RECURSIVE DigitsValue(_)
DigitsValue(s) ==
    IF s = <<>> THEN 0
    ELSE 10 * DigitsValue(SubSeq(s, 1, Len(s) - 1)) + (Ord(s[Len(s)]) - 48)

\* int(s) for a string of the model's characters: the decimal value, or
\* ValueError for the empty string and for a string with a non-digit.
IntOfStr(s) ==
    IF s # <<>> /\ \A i \in 1..Len(s) : IsDigit(s[i])
    THEN [ok |-> TRUE, v |-> DigitsValue(s)]
    ELSE [ok |-> FALSE, v |-> 0]

RECURSIVE StrLess(_, _)
StrLess(a, b) ==
    IF a = <<>> THEN b # <<>>
    ELSE IF b = <<>> THEN FALSE
    ELSE IF Ord(a[1]) # Ord(b[1]) THEN Ord(a[1]) < Ord(b[1])
    ELSE StrLess(Tail(a), Tail(b))

\* numpy item sizes of the on-disk element types i2, i4, f4, f8.
DataFormats == 1..4

ItemSize(fmt) == CASE fmt = 1 -> 2 [] fmt = 2 -> 4 [] fmt = 3 -> 4 [] fmt = 4 -> 8

IsIntFormat(fmt) == fmt \in {1, 2}

-----------------------------------------------------------------------------
(* The data region of a processed data file.  Sample values are kept in    *)
(* half units (the integer 2*v stands for v), so that the float formats    *)
(* hold fractions an integer cast truncates.                               *)

\* The k-th element (from 0) of the data region, which starts at byte 0:
\* the value k - 2 in the integer formats, k - 1.5 in the float formats.
DiskElem(k, fmt) == IF IsIntFormat(fmt) THEN 2 * (k - 2) ELSE 2 * (k - 2) + 1

\* ndarray.astype: a float type keeps the value, an integer type truncates
\* it toward zero.
OutTypes == {"f8", "i2"}

Astype(v, dtype) ==
    IF dtype = "f8" THEN v
    ELSE IF v >= 0 THEN 2 * (v \div 2) ELSE -(2 * ((-v) \div 2))

\* np.fromfile(fid, dtype, count) from byte position pos: count elements of
\* the on-disk type, element j taken from byte pos + j * itemsize.
fromfile(pos, fmt, cnt) ==
    [j \in 1..cnt |-> DiskElem((pos + (j - 1) * ItemSize(fmt)) \div ItemSize(fmt), fmt)]

\* A variant without the transposition: the flat array reshaped straight to
\* [cols, rows].
reshape_NoT(flat, rows, cols, dtype) ==
    [c \in 1..cols |-> [s \in 1..rows |-> Astype(flat[(c - 1) * rows + s], dtype)]]

\* flat.reshape([rows, cols]).T.astype(dtype): entry (c, s) of the result is
\* flat element s * cols + c (from 0), cast.
reshape_T(flat, rows, cols, dtype) ==
    [c \in 1..cols |-> [s \in 1..rows |-> Astype(flat[(s - 1) * cols + c], dtype)]]

-----------------------------------------------------------------------------
(* sorted(mapping, key=...) of read_raw_data, with Python 2's ordering:    *)
(* every int is smaller than every str, and the sort is stable.            *)

\* The key of a label: int(label[1:]) for a label starting with the MEG
\* character A, the label itself otherwise.  label[0] of the empty label
\* raises IndexError, int() of a non-number raises ValueError.
SortKey(label) ==
    IF label = <<>> THEN [err |-> "IndexError", isint |-> FALSE, n |-> 0, s |-> <<>>]
    ELSE IF label[1] = "A"
    THEN IF IntOfStr(Tail(label)).ok
         THEN [err |-> "", isint |-> TRUE, n |-> IntOfStr(Tail(label)).v, s |-> <<>>]
         ELSE [err |-> "ValueError", isint |-> FALSE, n |-> 0, s |-> <<>>]
    ELSE [err |-> "", isint |-> FALSE, n |-> 0, s |-> label]

KeyLess(a, b) ==
    IF a.isint /\ b.isint THEN a.n < b.n
    ELSE IF a.isint THEN TRUE
    ELSE IF b.isint THEN FALSE
    ELSE StrLess(a.s, b.s)

\* A variant that ignores the keys and puts the index first.
InsertFirst(i, out, labels) == <<i>> \o out

\* Insert index i into the sorted index list out, after every entry whose
\* key is not greater (the stable position).
RECURSIVE InsertSorted(_, _, _)
InsertSorted(i, out, labels) ==
    IF out = <<>> THEN <<i>>
    ELSE IF KeyLess(SortKey(labels[i]), SortKey(labels[out[1]]))
    THEN <<i>> \o out
    ELSE <<out[1]>> \o InsertSorted(i, Tail(out), labels)

RECURSIVE SortedPrefix(_, _)
SortedPrefix(labels, n) ==
    IF n = 0 THEN <<>> ELSE InsertSorted(n, SortedPrefix(labels, n - 1), labels)

\* The first label (in list order) whose key raises, as sorted evaluates
\* the keys in list order; 0 when none raises.
FirstKeyError(labels) ==
    IF \E i \in 1..Len(labels) : SortKey(labels[i]).err # ""
    THEN CHOOSE i \in 1..Len(labels) :
           /\ SortKey(labels[i]).err # ""
           /\ \A j \in 1..(i - 1) : SortKey(labels[j]).err = ""
    ELSE 0

\* order = [idx[0] for idx in sort]: the acquisition indices (from 1 here)
\* in sorted order.
by_name_order(labels) == SortedPrefix(labels, Len(labels))

-----------------------------------------------------------------------------
(* read_raw_data(info, start, stop, order, dtype).                         *)

NoData == <<>>

Raise(kind) == [kind |-> kind, shape |-> <<0, 0>>, data |-> NoData, order |-> None]

\* start/stop after the None defaults.
ArgStart(start) == IF start = None THEN 0 ELSE start[1]
ArgStop(inf, stop) == IF stop = None THEN inf.total_slices ELSE stop[1]

\* A variant of the range test without the upper limit.
RangeNoUpperLimit(inf, start, stop) ==
    \/ ArgStart(start) < 0
    \/ ArgStart(start) >= ArgStop(inf, stop)

\* any([start < 0, stop > total_slices, start >= stop])
InvalidRange(inf, start, stop) ==
    \/ ArgStart(start) < 0
    \/ ArgStop(inf, stop) > inf.total_slices
    \/ ArgStart(start) >= ArgStop(inf, stop)

\* The position of info['fid'] when the call ends: untouched when the
\* range is rejected, else past the last element read.
read_raw_data_pos(inf, pos, start, stop) ==
    IF InvalidRange(inf, start, stop) THEN pos
    ELSE inf.bytes_per_slice * ArgStart(start)
         + (ArgStop(inf, stop) - ArgStart(start)) * inf.total_chans * ItemSize(inf.dtype)

\* What the call returns or raises.
read_raw_data(inf, start, stop, order, dtype) ==
    IF InvalidRange(inf, start, stop) THEN Raise("RuntimeError")
    ELSE
      LET seekpos == inf.bytes_per_slice * ArgStart(start)
          n       == ArgStop(inf, stop) - ArgStart(start)
          cnt     == n * inf.total_chans
          data    == reshape_T(fromfile(seekpos, inf.dtype, cnt), n, inf.total_chans, dtype)
          labels  == inf.channels
      IN IF order = "by_name"
         THEN IF FirstKeyError(labels) # 0
              THEN Raise(SortKey(labels[FirstKeyError(labels)]).err)
              ELSE LET ord == by_name_order(labels)
                   IN [kind |-> "ok", shape |-> <<Len(ord), n>>,
                       data |-> [r \in 1..Len(ord) |-> data[ord[r]]],
                       order |-> ord]
         ELSE [kind |-> "ok", shape |-> <<inf.total_chans, n>>,
               data |-> data, order |-> None]

-----------------------------------------------------------------------------
(* read_raw_data through the retained handle: what a call reads depends on *)
(* where info['fid'].seek leaves the handle, and the handle stays where    *)
(* the read ended.                                                         *)

\* A variant of the seek that moves relative to the current position.
seek_from_current(at, offset) == at + offset

\* info['fid'].seek(offset): whence is os.SEEK_SET, the handle's position
\* at before the call does not matter.
file_seek(at, offset) == offset

\* What the call returns or raises when the handle is at position at.
read_raw_data_at(inf, at, start, stop, order, dtype) ==
    IF InvalidRange(inf, start, stop) THEN Raise("RuntimeError")
    ELSE
      LET seekpos == file_seek(at, inf.bytes_per_slice * ArgStart(start))
          n       == ArgStop(inf, stop) - ArgStart(start)
          cnt     == n * inf.total_chans
          data    == reshape_T(fromfile(seekpos, inf.dtype, cnt), n, inf.total_chans, dtype)
          labels  == inf.channels
      IN IF order = "by_name"
         THEN IF FirstKeyError(labels) # 0
              THEN Raise(SortKey(labels[FirstKeyError(labels)]).err)
              ELSE LET ord == by_name_order(labels)
                   IN [kind |-> "ok", shape |-> <<Len(ord), n>>,
                       data |-> [r \in 1..Len(ord) |-> data[ord[r]]],
                       order |-> ord]
         ELSE [kind |-> "ok", shape |-> <<inf.total_chans, n>>,
               data |-> data, order |-> None]

\* Where the call leaves the handle.
handle_after(inf, at, start, stop) ==
    IF InvalidRange(inf, start, stop) THEN at
    ELSE file_seek(at, inf.bytes_per_slice * ArgStart(start))
         + (ArgStop(inf, stop) - ArgStart(start)) * inf.total_chans * ItemSize(inf.dtype)

-----------------------------------------------------------------------------
(* The 4 x 4 transforms: _inverse_t and _apply_t.  A transform is a tuple  *)
(* of four rows of four integers.                                          *)

\* BTI.T_ROT_IX, BTI.T_TRANS_IX and BTI.T_SCA_IX: the rotation block is
\* rows 0-2 x columns 0-2, the translation block rows 0-2 of column 3, the
\* scale block the bottom row.
RotOf(m) == [i \in 1..3 |-> [j \in 1..3 |-> m[i][j]]]
TransOf(m) == [i \in 1..3 |-> m[i][4]]
ScaOf(m) == m[4]

\* The matrix with the three blocks set.
WithBlocks(rot, trans, sca) ==
    [i \in 1..4 |->
        IF i = 4 THEN sca
        ELSE [j \in 1..4 |-> IF j = 4 THEN trans[i] ELSE rot[i][j]]]

\* np.dot of two 3 x 3 blocks, of a block and a column, and ndarray.T.
Dot33(a, b) ==
    [i \in 1..3 |-> [j \in 1..3 |-> a[i][1] * b[1][j] + a[i][2] * b[2][j] + a[i][3] * b[3][j]]]
Dot31(a, v) == [i \in 1..3 |-> a[i][1] * v[1] + a[i][2] * v[2] + a[i][3] * v[3]]
TransposeOf(a) == [i \in 1..3 |-> [j \in 1..3 |-> a[j][i]]]

\* _inverse_t(x, t): x[scal] *= t[scal]; x[rot] = t[rot].T . x[rot];
\* x[trans] -= t[trans]; x[trans] = t[rot].T . x[trans]
inverse_t(x, t) ==
    LET sca   == [j \in 1..4 |-> ScaOf(x)[j] * ScaOf(t)[j]]
        rot   == Dot33(TransposeOf(RotOf(t)), RotOf(x))
        moved == [i \in 1..3 |-> TransOf(x)[i] - TransOf(t)[i]]
        trans == Dot31(TransposeOf(RotOf(t)), moved)
    IN WithBlocks(rot, trans, sca)

\* _apply_t(x, t): x[rot] = t[rot] . x[rot]; x[trans] = t[rot] . x[trans];
\* x[trans] += t[trans]; x[scal] *= t[scal]
apply_t(x, t) ==
    LET rot     == Dot33(RotOf(t), RotOf(x))
        turned  == Dot31(RotOf(t), TransOf(x))
        trans   == [i \in 1..3 |-> turned[i] + TransOf(t)[i]]
        sca     == [j \in 1..4 |-> ScaOf(x)[j] * ScaOf(t)[j]]
    IN WithBlocks(rot, trans, sca)

T_IDENT == <<<<1, 0, 0, 0>>, <<0, 1, 0, 0>>, <<0, 0, 1, 0>>, <<0, 0, 0, 1>>>>

\* _merge_t(t1, t2): t = np.array(BTI.T_IDENT); t[rot] = t1[rot] . t2[rot];
\* t[trans] = t1[rot] . t2[trans]; t[trans] += t1[trans].  The bottom row of
\* the result is the one of T_IDENT.
merge_t(t1, t2) ==
    LET rot    == Dot33(RotOf(t1), RotOf(t2))
        turned == Dot31(RotOf(t1), TransOf(t2))
        trans  == [i \in 1..3 |-> turned[i] + TransOf(t1)[i]]
    IN WithBlocks(rot, trans, ScaOf(T_IDENT))

\* BTI.T_ROT_VV, the flip between the two sensor frames.
T_ROT_VV == <<<<0, -1, 0, 0>>, <<1, 0, 0, 0>>, <<0, 0, 1, 0>>, <<1, 1, 1, 1>>>>

\* _get_m_to_nm() with adjust=None and the default translation
\* (0.0, 0.02, 0.11), here in hundredths: np.ones([4, 4]) with the rotation
\* block flip . adjust (adjust is the identity for 0 degrees) and the
\* translation block set.
get_m_to_nm ==
    WithBlocks(Dot33(RotOf(T_ROT_VV), RotOf(T_IDENT)), <<0, 2, 11>>, <<1, 1, 1, 1>>)

\* Rotation blocks of the model's transforms: the identity, a quarter turn
\* about z, a half turn about x (all orthogonal) and a shear (not
\* orthogonal).
OrthoRots ==
    { <<<<1, 0, 0>>, <<0, 1, 0>>, <<0, 0, 1>>>>,
      <<<<0, -1, 0>>, <<1, 0, 0>>, <<0, 0, 1>>>>,
      <<<<1, 0, 0>>, <<0, -1, 0>>, <<0, 0, -1>>>> }
Shear == <<<<1, 2, 0>>, <<0, 1, 0>>, <<0, 0, 1>>>>

Translations == { <<0, 0, 0>>, <<1, -2, 3>> }

\* Bottom rows: the homogeneous row, scales 2 and -1, and the rows of a
\* matrix built from np.ones.
ScaleRows == { <<0, 0, 0, 1>>, <<0, 0, 0, 2>>, <<0, 0, 0, -1>>, <<1, 1, 1, 1>>,
               <<2, 2, 2, 2>> }

Transforms(rots) ==
    { WithBlocks(r, tr, sc) : r \in rots, tr \in Translations, sc \in ScaleRows }

XfmParked == xarg = T_IDENT /\ targ = T_IDENT /\ xop = "none" /\ xres = T_IDENT

\* _apply_t(_inverse_t(x, t), t)
RoundTrip ==
    /\ xop = "pending"
    /\ xres' = apply_t(inverse_t(xarg, targ), targ)
    /\ xop' = "roundtrip"
    /\ UNCHANGED <<xarg, targ>>
    /\ UNCHANGED notxfm

\* _merge_t(BTI.T_IDENT, t)
MergeLeft ==
    /\ xop = "pending"
    /\ xres' = merge_t(T_IDENT, targ)
    /\ xop' = "merge_left"
    /\ UNCHANGED <<xarg, targ>>
    /\ UNCHANGED notxfm

\* _merge_t(t, BTI.T_IDENT)
MergeRight ==
    /\ xop = "pending"
    /\ xres' = merge_t(targ, T_IDENT)
    /\ xop' = "merge_right"
    /\ UNCHANGED <<xarg, targ>>
    /\ UNCHANGED notxfm

-----------------------------------------------------------------------------
(* _correct_offset(fid): skip the padding up to the next block boundary.   *)

\* BTI.FILE_CURPOS, the block size of the format.
FILE_CURPOS == 8

\* A variant that skips a full block from an aligned position.
correct_offset_always(current) == current + (FILE_CURPOS - (current % FILE_CURPOS))

\* if current % FILE_CURPOS != 0: seek FILE_CURPOS - offset bytes forward.
correct_offset(current) ==
    IF current % FILE_CURPOS # 0
    THEN current + (FILE_CURPOS - (current % FILE_CURPOS))
    ELSE current

NoOp == [op |-> "none", from |-> 0, first |-> 0, again |-> FALSE]

OffParked == cur = 0 /\ last = NoOp

\* fid.seek(p): a decoder leaves the stream anywhere.
SeekTo ==
    \E p \in 0..MaxPos :
        /\ cur' = p
        /\ last' = [op |-> "seek", from |-> cur, first |-> cur, again |-> FALSE]
        /\ UNCHANGED notoff

\* _correct_offset(fid)
CorrectOffset ==
    /\ cur' = correct_offset(cur)
    /\ last' = [op |-> "correct", from |-> cur,
                first |-> IF last.op = "correct" THEN last.first ELSE cur,
                again |-> last.op = "correct"]
    /\ UNCHANGED notoff

-----------------------------------------------------------------------------
(* The config file: read_config and the record decoders _read_userblock    *)
(* and _read_ch_config.  Lines 685-708 of bti.py (the channel-label branch *)
(* and the branches after it) do not parse; the branches without a body    *)
(* are read as doing nothing.                                              *)

\* file.seek(offset[, whence]) takes at most two arguments.
seek_accepts(nargs) == nargs <= 2

\* The tags of the user blocks the model's files hold: the two version
\* blocks, the two blocks that need a count from them, and a tag no branch
\* of the decoder names.
RecognizedTags == {"B_WHChanMapVer", "B_WHChanMap", "B_WHSubsysVer", "B_WHSubsys"}
UserBlockTags == RecognizedTags \cup {"B_vendor"}

\* The outer test of _read_userblock, kind in [k for k in BTI if ...]: BTI
\* is defined outside these sources; the test is taken to hold for the tags
\* the branches name.
IsUblockTag(kind) == kind \in RecognizedTags

\* A user block as it lies in the file: its tag, the entries field of a
\* version block, and the byte length its header gives.
DiskBlocks ==
    { [kind |-> k, entries |-> e, nbytes |-> 16] :
        k \in UserBlockTags, e \in {0, 4} }

\* What a caller may hand over as `blocks`: the values earlier calls
\* returned (None), or dictionaries of earlier version blocks with or
\* without a 'data' entry.  Absent stands for the call with one argument.
NoneBlock == [isnone |-> TRUE, kind |-> "", has_data |-> FALSE, entries |-> 0]

BlockValues ==
    {NoneBlock} \cup
    { [isnone |-> FALSE, kind |-> k, has_data |-> d, entries |-> e] :
        k \in {"B_WHChanMapVer", "B_WHSubsysVer"}, d \in BOOLEAN, e \in {0, 4} }

Absent == [given |-> FALSE, list |-> <<>>]

BlockArgs ==
    { [given |-> TRUE, list |-> l] : l \in UNION { [1..n -> BlockValues] : n \in 0..MaxBlocks } }

UResult(exc, num, payload) ==
    [exc |-> exc, value |-> None, num |-> num, payload_read |-> payload]

\* for block in blocks: if block['hdr']['kind'] == ver:
\*     num = block['data']['entries']; break
RECURSIVE scan_blocks(_, _)
scan_blocks(blocks, ver) ==
    IF blocks = <<>> THEN [exc |-> "", num |-> None]
    ELSE IF blocks[1].isnone THEN [exc |-> "TypeError", num |-> None]
    ELSE IF blocks[1].kind = ver
         THEN IF blocks[1].has_data
              THEN [exc |-> "", num |-> Some(blocks[1].entries)]
              ELSE [exc |-> "KeyError", num |-> None]
    ELSE scan_blocks(Tail(blocks), ver)

\* The branches for the channel map and the subsystem table: the count
\* comes from the version block found in `blocks`; ValueError when none is
\* found.  The loop bodies name bta_read_int16 (undefined) and
\* data['subkeys'] (never created), so a count above 0 raises.
counted_block(blocks, ver, looperr) ==
    LET found == scan_blocks(blocks, ver)
    IN IF found.exc # "" THEN UResult(found.exc, None, FALSE)
       ELSE IF found.num = None THEN UResult("ValueError", None, FALSE)
       ELSE IF found.num[1] > 0 THEN UResult(looperr, found.num, TRUE)
       ELSE UResult("", found.num, FALSE)

\* _read_userblock(fid, blocks) on the block at the cursor.  No branch
\* stores `data` in the block and the function ends with `retun = block`,
\* so the value returned is None.
read_userblock(blk, blocks) ==
    IF ~blocks.given THEN UResult("TypeError", None, FALSE)
    ELSE IF IsUblockTag(blk.kind)
    THEN CASE blk.kind \in {"B_WHChanMapVer", "B_WHSubsysVer"} ->
                UResult("", None, TRUE)
           [] blk.kind = "B_WHChanMap" ->
                counted_block(blocks.list, "B_WHChanMapVer", "NameError")
           [] blk.kind = "B_WHSubsys" ->
                counted_block(blocks.list, "B_WHSubsysVer", "KeyError")
    ELSE UResult("", None, FALSE)

\* The channel-type tags of the channel-config records.
KnownChTypes == {"MEG", "REF", "EEG", "TRIGGER", "EXTERNAL", "UTILITY", "DERIVED",
                 "SHORTED"}
ChTypes == KnownChTypes \cup {"unknown"}

\* The dispatch of _read_ch_config on ch_type: chan['dev']['total_loops']
\* is no key of the device header; a tag no branch names falls through and
\* the record is returned with the device header alone.
ch_config_chan(ch_type) ==
    IF ch_type \in {"MEG", "REF"} THEN [exc |-> "KeyError", value |-> None]
    ELSE [exc |-> "", value |-> [ch_type |-> ch_type, known |-> ch_type \in KnownChTypes]]

\* _read_ch_config(fid): the name and numbers, then
\* fid.seek(fid, BTI.FILE_CONF_CH_NEXT, os.SEEK_CUR), then the rest.
read_ch_config(ch_type) ==
    IF ~seek_accepts(3)
    THEN [exc |-> "TypeError", value |-> None, num |-> None, payload_read |-> FALSE]
    ELSE [exc |-> ch_config_chan(ch_type).exc, value |-> ch_config_chan(ch_type).value,
          num |-> None, payload_read |-> FALSE]

NoUCall == [fn |-> "none", blk |-> [kind |-> "", entries |-> 0, nbytes |-> 0],
            blocks |-> Absent, ch_type |-> ""]

CfgFiles == { [blocks |-> b] : b \in UNION { [1..n -> DiskBlocks] : n \in 0..MaxBlocks } }

CfgParked ==
    /\ cfgfile = [blocks |-> <<>>] /\ cpc = "none" /\ cret = "none"
    /\ ucall = NoUCall /\ uret = UResult("none", None, FALSE)

\* with open(fname, 'rb') as fid
OpenCfg ==
    /\ cpc = "closed"
    /\ cpc' = "header"
    /\ UNCHANGED <<cfgfile, cret, ucall, uret>>
    /\ UNCHANGED notcfg

\* open() raises IOError.
OpenCfgFail ==
    /\ cpc = "closed"
    /\ cpc' = "failed"
    /\ cret' = "IOError"
    /\ UNCHANGED <<cfgfile, ucall, uret>>
    /\ UNCHANGED notcfg

\* cfg = dict(version=..., ..., next_der_chan_no=...): the header fields;
\* struct.error when the file ends before them.
CfgHeader ==
    /\ cpc = "header"
    /\ \/ cpc' = "seek" /\ cret' = cret
       \/ cpc' = "failed" /\ cret' = "struct.error"
    /\ UNCHANGED <<cfgfile, ucall, uret>>
    /\ UNCHANGED notcfg

\* fid.seek(fid, BTI.FILE_CONF_NEXT, os.SEEK_CUR): three arguments, so the
\* call raises TypeError and read_config ends before the transforms, the
\* user blocks and the channel records are read.
CfgSeek ==
    /\ cpc = "seek"
    /\ ~seek_accepts(3)
    /\ cpc' = "failed"
    /\ cret' = "TypeError"
    /\ UNCHANGED <<cfgfile, ucall, uret>>
    /\ UNCHANGED notcfg

\* The direct calls of the two record decoders a behaviour may start
\* with: _read_userblock(fid, blocks), or _read_userblock(fid) as
\* read_config writes it, with the cursor at a user block, and
\* _read_ch_config(fid) with the cursor at a channel record.
PendingCalls ==
    { [fn |-> "_read_userblock", blk |-> blk, blocks |-> blocks, ch_type |-> ""] :
        blk \in DiskBlocks, blocks \in BlockArgs \cup {Absent} }
    \cup { [NoUCall EXCEPT !.fn = "_read_ch_config", !.ch_type = t] : t \in ChTypes }

Pending == UResult("pending", None, FALSE)

CallReadUserblock ==
    /\ ucall.fn = "_read_userblock"
    /\ uret = Pending
    /\ uret' = read_userblock(ucall.blk, ucall.blocks)
    /\ UNCHANGED <<cfgfile, cpc, cret, ucall>>
    /\ UNCHANGED notcfg

CallReadChConfig ==
    /\ ucall.fn = "_read_ch_config"
    /\ uret = Pending
    /\ uret' = read_ch_config(ucall.ch_type)
    /\ UNCHANGED <<cfgfile, cpc, cret, ucall>>
    /\ UNCHANGED notcfg

-----------------------------------------------------------------------------
(* read_pdf_info(fname): the header, then six lists of records whose       *)
(* lengths the header gives, then the trailing data and the retained       *)
(* handle.                                                                 *)

\* pts_in_epoch values of the epoch records of the model's files.
PtsValues == {0, 1, 100}

\* data_format values of the model's headers: the four DTYPES keys and one
\* value that is no key.
HeaderFormats == 1..5

\* The label of the i-th channel record of the model's files.
ChanLabel(i) == IF i % 2 = 1 THEN <<"A", "2">> ELSE <<"E">>

PdfFiles ==
    { [data_format |-> f, pts |-> p, total_epochs |-> Len(p), total_chans |-> nc,
       total_events |-> ne, total_processes |-> np,
       total_associated_files |-> na, total_ed_classes |-> nd] :
        f \in HeaderFormats,
        p \in UNION { [1..n -> PtsValues] : n \in 0..MaxEpochs },
        nc \in 0..MaxChans,
        ne \in 0..MaxRecs, np \in 0..MaxRecs, na \in 0..MaxRecs, nd \in 0..MaxRecs }

NoPdf == [data_format |-> 0, pts |-> <<>>, total_epochs |-> 0, total_chans |-> 0,
          total_events |-> 0, total_processes |-> 0,
          total_associated_files |-> 0, total_ed_classes |-> 0]

\* The info dictionary before the header is read.
NoInfo ==
    [data_format |-> 0, total_epochs |-> 0, total_chans |-> 0, total_events |-> 0,
     total_processes |-> 0, total_associated_files |-> 0, total_ed_classes |-> 0,
     epochs |-> <<>>, channels |-> <<>>, events |-> <<>>, processes |-> <<>>,
     assocfiles |-> <<>>, edclasses |-> <<>>,
     total_slices |-> None, dtype |-> None, bytes_per_slice |-> None]

\* _read_bti_header: the fields of the header record.
read_bti_header(f) ==
    [NoInfo EXCEPT !.data_format = f.data_format,
                   !.total_epochs = f.total_epochs,
                   !.total_chans = f.total_chans,
                   !.total_events = f.total_events,
                   !.total_processes = f.total_processes,
                   !.total_associated_files = f.total_associated_files,
                   !.total_ed_classes = f.total_ed_classes]

\* _read_bti_epoch and _read_channel: the fields of the k-th record that
\* matter later.
read_bti_epoch(f, k) == [pts_in_epoch |-> f.pts[k]]
read_channel(f, k) == [chan_label |-> ChanLabel(k)]

\* The list comprehensions of read_pdf_info, in the order they are written.
ListStages == <<"epochs", "channels", "events", "processes", "assocfiles", "edclasses">>

StageCount(stage) ==
    CASE stage = "epochs" -> "total_epochs"
      [] stage = "channels" -> "total_chans"
      [] stage = "events" -> "total_events"
      [] stage = "processes" -> "total_processes"
      [] stage = "assocfiles" -> "total_associated_files"
      [] stage = "edclasses" -> "total_ed_classes"

StageIndex(stage) == CHOOSE i \in 1..Len(ListStages) : ListStages[i] = stage

\* A variant that decodes events before channels.
StageAfterSwapped(stage) ==
    CASE stage = "epochs" -> "events"
      [] stage = "events" -> "channels"
      [] stage = "channels" -> "processes"
      [] stage = "processes" -> "assocfiles"
      [] stage = "assocfiles" -> "edclasses"
      [] stage = "edclasses" -> "tail"

\* The statement that follows a finished list comprehension.
NextStage(stage) ==
    IF StageIndex(stage) < Len(ListStages) THEN ListStages[StageIndex(stage) + 1]
    ELSE "tail"

\* A variant that takes every epoch to be as long as the first.
slices_from_first(eps) == IF eps = <<>> THEN 0 ELSE Len(eps) * eps[1].pts_in_epoch

\* sum(e['pts_in_epoch'] for e in info['epochs'])
RECURSIVE total_slices_of(_)
total_slices_of(eps) ==
    IF eps = <<>> THEN 0
    ELSE eps[Len(eps)].pts_in_epoch + total_slices_of(SubSeq(eps, 1, Len(eps) - 1))

\* with open(fname, 'rb') as fid
OpenPdf ==
    /\ pc = "closed"
    /\ pc' = "header"
    /\ fds' = {"fid"}
    /\ UNCHANGED <<pdf, rinfo, log, pret>>
    /\ UNCHANGED notpdf

\* open() raises IOError: nothing was opened, nothing is returned.
OpenFail ==
    /\ pc = "closed"
    /\ pc' = "failed"
    /\ pret' = "IOError"
    /\ UNCHANGED <<pdf, rinfo, log, fds>>
    /\ UNCHANGED notpdf

\* info, hdr_size, ftr_pos = _read_bti_header(fid)
ReadHeader ==
    /\ pc = "header"
    /\ rinfo' = read_bti_header(pdf)
    /\ log' = Append(log, "header")
    /\ pc' = ListStages[1]
    /\ UNCHANGED <<pdf, fds, pret>>
    /\ UNCHANGED notpdf

\* info['epochs'] = [_read_bti_epoch(fid) for epoch in xrange(total_epochs)]
ReadEpoch ==
    /\ pc = "epochs"
    /\ Len(rinfo.epochs) < rinfo.total_epochs
    /\ rinfo' = [rinfo EXCEPT !.epochs = Append(@, read_bti_epoch(pdf, Len(rinfo.epochs) + 1))]
    /\ log' = Append(log, "epochs")
    /\ UNCHANGED <<pdf, pc, fds, pret>>
    /\ UNCHANGED notpdf

\* info['channels'] = [_read_channel(fid) for ch in xrange(total_chans)]
ReadChannel ==
    /\ pc = "channels"
    /\ Len(rinfo.channels) < rinfo.total_chans
    /\ rinfo' = [rinfo EXCEPT !.channels = Append(@, read_channel(pdf, Len(rinfo.channels) + 1))]
    /\ log' = Append(log, "channels")
    /\ UNCHANGED <<pdf, pc, fds, pret>>
    /\ UNCHANGED notpdf

\* info['events'] = [_read_event(fid) for event in xrange(total_events)]
ReadEvent ==
    /\ pc = "events"
    /\ Len(rinfo.events) < rinfo.total_events
    /\ rinfo' = [rinfo EXCEPT !.events = Append(@, [kind |-> "event"])]
    /\ log' = Append(log, "events")
    /\ UNCHANGED <<pdf, pc, fds, pret>>
    /\ UNCHANGED notpdf

\* info['processes'] = [_read_process(fid) for process in xrange(total_processes)]
ReadProcess ==
    /\ pc = "processes"
    /\ Len(rinfo.processes) < rinfo.total_processes
    /\ rinfo' = [rinfo EXCEPT !.processes = Append(@, [kind |-> "process"])]
    /\ log' = Append(log, "processes")
    /\ UNCHANGED <<pdf, pc, fds, pret>>
    /\ UNCHANGED notpdf

\* info['assocfiles'] = [_read_assoc_file(fid) for af in xrange(...)]
ReadAssocFile ==
    /\ pc = "assocfiles"
    /\ Len(rinfo.assocfiles) < rinfo.total_associated_files
    /\ rinfo' = [rinfo EXCEPT !.assocfiles = Append(@, [kind |-> "assocfile"])]
    /\ log' = Append(log, "assocfiles")
    /\ UNCHANGED <<pdf, pc, fds, pret>>
    /\ UNCHANGED notpdf

\* info['edclasses'] = [_read_pfid_ed(fid) for ed_class in range(total_ed_classes)]
ReadEdClass ==
    /\ pc = "edclasses"
    /\ Len(rinfo.edclasses) < rinfo.total_ed_classes
    /\ rinfo' = [rinfo EXCEPT !.edclasses = Append(@, [kind |-> "edclass"])]
    /\ log' = Append(log, "edclasses")
    /\ UNCHANGED <<pdf, pc, fds, pret>>
    /\ UNCHANGED notpdf

\* xrange(count) is exhausted: on to the next statement.
ListDone ==
    /\ pc \in { ListStages[i] : i \in 1..Len(ListStages) }
    /\ Len(rinfo[pc]) >= rinfo[StageCount(pc)]
    /\ pc' = NextStage(pc)
    /\ UNCHANGED <<pdf, rinfo, log, fds, pret>>
    /\ UNCHANGED notpdf

\* A variant that hands the caller the lists read before the failure.
DecodeFailPartial ==
    /\ pc \in {"header"} \cup { ListStages[i] : i \in 1..Len(ListStages) }
    /\ pc' = "failed"
    /\ pret' = "struct.error"
    /\ fds' = {}
    /\ UNCHANGED <<pdf, log, rinfo>>
    /\ UNCHANGED notpdf

\* A read of the header or of a record meets the end of a truncated file:
\* struct.error leaves the with block, which closes fid; no info is
\* returned.
DecodeFail ==
    /\ pc \in {"header"} \cup { ListStages[i] : i \in 1..Len(ListStages) }
    /\ pc' = "failed"
    /\ pret' = "struct.error"
    /\ rinfo' = NoInfo
    /\ fds' = {}
    /\ UNCHANGED <<pdf, log>>
    /\ UNCHANGED notpdf

\* The statements after the lists: the trailing data, the duplicated
\* handle, total_slices, then DTYPES[data_format] (KeyError for a value
\* that is no key, after the handle was duplicated) and bytes_per_slice;
\* leaving the with block closes fid.
Finish ==
    /\ pc = "tail"
    /\ IF rinfo.data_format \in DataFormats
       THEN /\ rinfo' = [rinfo EXCEPT
                           !.total_slices = Some(total_slices_of(rinfo.epochs)),
                           !.dtype = Some(rinfo.data_format),
                           !.bytes_per_slice =
                               Some(ItemSize(rinfo.data_format) * rinfo.total_chans)]
            /\ pc' = "done"
            /\ pret' = "ok"
       ELSE /\ rinfo' = NoInfo
            /\ pc' = "failed"
            /\ pret' = "KeyError"
    /\ fds' = {"dup"}
    /\ UNCHANGED <<pdf, log>>
    /\ UNCHANGED notpdf

PdfParked ==
    /\ pdf = NoPdf /\ pc = "none" /\ rinfo = NoInfo /\ log = <<>> /\ fds = {}
    /\ pret = "none"

-----------------------------------------------------------------------------
(* _rename_channels(names): a generator.  A label and a name are tuples of *)
(* pieces, a piece being one character of a 4-D label or a literal of the  *)
(* code.                                                                   *)

\* str.startswith
StartsWith(s, prefix) == Len(s) >= Len(prefix) /\ SubSeq(s, 1, Len(prefix)) = prefix

\* '%3.3d' % n for n >= 0: the decimal digits, zero-filled to three.
DigitChar(d) == <<"0", "1", "2", "3", "4", "5", "6", "7", "8", "9">>[d + 1]
RECURSIVE DecDigits(_)
DecDigits(n) == IF n < 10 THEN <<DigitChar(n)>> ELSE DecDigits(n \div 10) \o <<DigitChar(n % 10)>>
Fmt3(n) ==
    LET d == DecDigits(n)
    IN IF Len(d) >= 3 THEN d ELSE [k \in 1..(3 - Len(d)) |-> "0"] \o d

\* The labels of the model's recordings.
L_A1 == <<"A", "1">>
L_TRIGGER == <<"T", "R", "I", "G", "G", "E", "R">>
L_RESPONSE == <<"R", "E", "S", "P", "O", "N", "S", "E">>
L_EOG == <<"E", "O", "G">>
L_ECG == <<"E", "C", "G">>
L_UACurrent == <<"U", "A", "C", "u", "r", "r", "e", "n", "t">>
L_Mx == <<"M", "x">>
L_Gy == <<"G", "y">>
L_X1 == <<"X", "1">>
L_E1 == <<"E", "1">>

RenameLabels ==
    {L_A1, L_TRIGGER, L_RESPONSE, L_EOG, L_ECG, L_UACurrent, L_Mx, L_Gy, L_X1, L_E1}

\* Four itertools.count(1) objects.
CountFromOne == [ref_mag |-> 1, ref_grad |-> 1, eog |-> 1, ext |-> 1]

\* A variant in which the counters of the call before are kept.
carried_counters(old) == old

\* ref_mag, ref_grad, eog, ext = ((lambda: count(1))() for i in range(4)),
\* run when the generator body starts, whatever a call before left behind.
new_counters(old) == CountFromOne

\* One turn of the loop for the i-th label (i from 1): the name yielded and
\* the counters after it.
rename_step(name, i, c) ==
    IF StartsWith(name, <<"A">>) THEN [name |-> <<"MEG ">> \o Fmt3(i), counters |-> c]
    ELSE IF name = L_RESPONSE THEN [name |-> <<"SRI 013">>, counters |-> c]
    ELSE IF name = L_TRIGGER THEN [name |-> <<"STI 014">>, counters |-> c]
    ELSE IF StartsWith(name, L_EOG)
    THEN [name |-> <<"EOG ">> \o Fmt3(c.eog), counters |-> [c EXCEPT !.eog = @ + 1]]
    ELSE IF name = L_ECG THEN [name |-> <<"ECG 001">>, counters |-> c]
    ELSE IF name = L_UACurrent THEN [name |-> <<"UTL 001">>, counters |-> c]
    ELSE IF StartsWith(name, <<"M">>)
    THEN [name |-> <<"RFM ">> \o Fmt3(c.ref_mag), counters |-> [c EXCEPT !.ref_mag = @ + 1]]
    ELSE IF StartsWith(name, <<"G">>)
    THEN [name |-> <<"RFG ">> \o Fmt3(c.ref_grad), counters |-> [c EXCEPT !.ref_grad = @ + 1]]
    ELSE IF StartsWith(name, <<"X">>)
    THEN [name |-> <<"EXT ">> \o Fmt3(c.ext), counters |-> [c EXCEPT !.ext = @ + 1]]
    ELSE [name |-> name, counters |-> c]

NoEarlier == [made |-> FALSE, out |-> <<>>, runs |-> 0]

RenameParked ==
    /\ names = <<>> /\ rpc = "none" /\ ri = 0 /\ counters = CountFromOne
    /\ yielded = <<>> /\ earlier = NoEarlier

\* list(_rename_channels(names)) begins: the first next() runs the body up
\* to the loop.
RenameCall ==
    /\ rpc \in {"idle", "done"}
    /\ earlier.runs < MaxRuns
    /\ earlier' = [made |-> rpc = "done", out |-> yielded, runs |-> earlier.runs + 1]
    /\ counters' = new_counters(counters)
    /\ ri' = 0
    /\ yielded' = <<>>
    /\ rpc' = "running"
    /\ UNCHANGED names
    /\ UNCHANGED notrn

\* for i, name in enumerate(names, 1): ...; yield name
RenameNext ==
    /\ rpc = "running"
    /\ ri < Len(names)
    /\ LET r == rename_step(names[ri + 1], ri + 1, counters)
       IN /\ yielded' = Append(yielded, r.name)
          /\ counters' = r.counters
    /\ ri' = ri + 1
    /\ UNCHANGED <<names, rpc, earlier>>
    /\ UNCHANGED notrn

\* The loop ends: StopIteration.
RenameStop ==
    /\ rpc = "running"
    /\ ri = Len(names)
    /\ rpc' = "done"
    /\ UNCHANGED <<names, ri, counters, yielded, earlier>>
    /\ UNCHANGED notrn

-----------------------------------------------------------------------------
(* RawBTi: the constructor, _create_raw_info, and the two readers of the   *)
(* optional files, read_head_shape and _read_system_trans.                 *)

\* The module's global names: its imports and its top-level definitions.
ModuleNames ==
    {"Raw", "pick_types", "BTI", "FIFF", "os", "op", "struct", "time", "datetime",
     "count", "floor", "np", "verbose", "logging", "logger",
     "_unpack_matrix", "_unpack_simple", "bti_read_str", "bti_read_char",
     "bti_read_bool", "bti_read_uint8", "bti_read_int8", "bti_read_uint16",
     "bti_read_int16", "bti_read_uint32", "bti_read_int32", "bti_read_uint64",
     "bti_read_int64", "bti_read_float", "bti_read_double",
     "bti_read_int16_matrix", "bti_read_float_matrix", "bti_read_double_matrix",
     "bti_read_transform", "_get_m_to_nm", "_read_system_trans",
     "_m_to_nm_coil_trans", "_inverse_t", "_apply_t", "_merge_t",
     "_rename_channels", "convert_head_shape", "read_head_shape", "read_data",
     "_correct_offset", "_read_bti_header", "_read_bti_epoch", "_read_channel",
     "_read_event", "_read_process", "_read_assoc_file", "_read_pfid_ed",
     "_read_userblock", "_read_dev_hdr", "_read_coil_def", "_read_ch_config",
     "read_raw_data", "read_pdf_info", "read_config", "RawBTi"}

\* The parameters of RawBTi.__init__.
InitParams ==
    {"self", "pdf_fname", "config_fname", "head_shape_fname", "data", "rotation_x",
     "translation", "use_hpi", "force_units", "verbose"}

\* Looking a name up in a function's locals and the module's globals.
Resolves(name, locals) == name \in locals \cup ModuleNames

\* A file argument: None, or the path of a file that reads well, of one
\* that is cut short, or of none.
FileArgs == {"None", "readable", "truncated", "missing"}
Paths == FileArgs \ {"None"}

BResult(exc) == [exc |-> exc, info |-> None, log |-> <<>>]
BPending == BResult("pending")

\* with open(fname, 'rb') as fid: seek, count, two matrices.
read_head_shape(fname) ==
    CASE fname = "missing" -> "IOError"
      [] fname = "truncated" -> "struct.error"
      [] fname = "readable" -> ""

\* [l.strip().split(', ') for l in open(fname) if l.startswith(' ')], then
\* np.array(trans, dtype=float).reshape([4, 4])
read_system_trans(fname) ==
    CASE fname = "missing" -> "IOError"
      [] fname = "truncated" -> "ValueError"
      [] fname = "readable" -> ""

NoBCall ==
    [fn |-> "none", dev |-> "None", hs |-> "None", force_units |-> "False",
     use_hpi |-> FALSE, hdr_ok |-> TRUE, data |-> FALSE, file |-> "readable"]

\* The calls of the model: the constructor, _create_raw_info on an object
\* whose attributes a caller has set, and the two file readers.
BtiCalls ==
    { [NoBCall EXCEPT !.fn = "RawBTi", !.hs = h, !.force_units = f,
                      !.use_hpi = u, !.data = d] :
        h \in FileArgs, f \in {"False", "True", "float"}, u \in BOOLEAN, d \in BOOLEAN }
    \cup
    { [NoBCall EXCEPT !.fn = "_create_raw_info", !.dev = v, !.hs = h,
                      !.use_hpi = u, !.hdr_ok = k] :
        v \in FileArgs, h \in FileArgs, u \in BOOLEAN, k \in BOOLEAN }
    \cup
    { [NoBCall EXCEPT !.fn = g, !.file = p] :
        g \in {"read_head_shape", "_read_system_trans"}, p \in Paths }

BtiParked == bcall = NoBCall /\ bpc = "none" /\ bret = BPending

\* RawBTi(pdf_fname, config_fname, head_shape_fname, ...): the first
\* statement, logger.info('Opening 4-D header file %s...' % hdr_fname).
BtiInit ==
    /\ bcall.fn = "RawBTi" /\ bpc = "called"
    /\ ~Resolves("hdr_fname", InitParams)
    /\ bpc' = "failed"
    /\ bret' = BResult("NameError")
    /\ UNCHANGED bcall
    /\ UNCHANGED notbti

\* _create_raw_info up to info['nchan']: the session date, the sample
\* frequency and the channel count are taken from self.hdr.
CriHeader ==
    /\ bcall.fn = "_create_raw_info" /\ bpc = "called"
    /\ IF bcall.hdr_ok
       THEN bpc' = "ch_names" /\ UNCHANGED bret
       ELSE bpc' = "failed" /\ bret' = BResult("KeyError")
    /\ UNCHANGED bcall
    /\ UNCHANGED notbti

\* ch_names = _bti_get_channel_names(self.hdr)
CriChannelNames ==
    /\ bcall.fn = "_create_raw_info" /\ bpc = "ch_names"
    /\ ~Resolves("_bti_get_channel_names", {"self", "info", "sep", "d", "sec", "sfreq"})
    /\ bpc' = "failed"
    /\ bret' = BResult("NameError")
    /\ UNCHANGED bcall
    /\ UNCHANGED notbti

\* read_head_shape(fname)
CallReadHeadShape ==
    /\ bcall.fn = "read_head_shape" /\ bpc = "called"
    /\ bpc' = IF read_head_shape(bcall.file) = "" THEN "done" ELSE "failed"
    /\ bret' = BResult(read_head_shape(bcall.file))
    /\ UNCHANGED bcall
    /\ UNCHANGED notbti

\* _read_system_trans(fname)
CallReadSystemTrans ==
    /\ bcall.fn = "_read_system_trans" /\ bpc = "called"
    /\ bpc' = IF read_system_trans(bcall.file) = "" THEN "done" ELSE "failed"
    /\ bret' = BResult(read_system_trans(bcall.file))
    /\ UNCHANGED bcall
    /\ UNCHANGED notbti

-----------------------------------------------------------------------------
(* The primitive readers bti_read_uint16 and bti_read_int16 over           *)
(* _unpack_simple.                                                         *)

\* Byte values of the model's files: both halves of the range, and the
\* ends.
ByteValues == {0, 1, 128, 255}

\* struct.calcsize of '>' followed by count letters H.
calcsize_H(count) == 2 * count

\* struct.unpack of one big-endian H (unsigned short) and, for comparison,
\* of one big-endian h (signed short).
unpack_H(hi, lo) == hi * 256 + lo
unpack_h(hi, lo) == IF hi >= 128 THEN hi * 256 + lo - 65536 ELSE hi * 256 + lo

\* The format letter each reader hands to _unpack_simple.
FormatLetter(fn) ==
    CASE fn = "bti_read_uint16" -> "H"
      [] fn = "bti_read_int16" -> "H"

unpack_one(letter, hi, lo) == IF letter = "H" THEN unpack_H(hi, lo) ELSE unpack_h(hi, lo)

PResult(exc, vals, scalar) == [exc |-> exc, vals |-> vals, scalar |-> scalar]

\* _unpack_simple(fid, format, count): fid.read(bsize) returns what is left
\* when the file is shorter, and struct.unpack then raises struct.error;
\* data[0] for count < 2, the list otherwise.
unpack_simple(bytes, pos, letter, count) ==
    LET bsize == calcsize_H(count)
    IN IF pos + bsize > Len(bytes) THEN PResult("struct.error", <<>>, FALSE)
       ELSE PResult("",
                    [k \in 1..count |->
                        unpack_one(letter, bytes[pos + 2 * k - 1], bytes[pos + 2 * k])],
                    count < 2)

\* The position after fid.read(bsize).
read_pos(bytes, pos, bsize) == IF pos + bsize > Len(bytes) THEN Len(bytes) ELSE pos + bsize

NoPrim == [fn |-> "none", count |-> 0, from |-> 0]

PrimParked ==
    /\ stream = <<>> /\ spos = 0 /\ prim = NoPrim /\ pval = PResult("none", <<>>, FALSE)

\* bti_read_uint16(fid, count)
ReadUint16 ==
    \E count \in 1..2 :
        /\ pval' = unpack_simple(stream, spos, FormatLetter("bti_read_uint16"), count)
        /\ spos' = read_pos(stream, spos, calcsize_H(count))
        /\ prim' = [fn |-> "bti_read_uint16", count |-> count, from |-> spos]
        /\ UNCHANGED stream
        /\ UNCHANGED notprim

\* bti_read_int16(fid, count)
ReadInt16 ==
    \E count \in 1..2 :
        /\ pval' = unpack_simple(stream, spos, FormatLetter("bti_read_int16"), count)
        /\ spos' = read_pos(stream, spos, calcsize_H(count))
        /\ prim' = [fn |-> "bti_read_int16", count |-> count, from |-> spos]
        /\ UNCHANGED stream
        /\ UNCHANGED notprim

-----------------------------------------------------------------------------
(* The record decoders of the processed data file, as sequences of         *)
(* primitive reads and skips.                                              *)

\* Field sizes and skips of the format, by their names in BTI.
BTI ==
    [FILE_PDF_EPOCH_EXIT |-> 28,
     FILE_PDF_CH_LABELSIZE |-> 16,
     FILE_PDF_CH_YLABEL |-> 16,
     FILE_PDF_CH_NEXT |-> 6,
     FILE_PDF_CH_OFF_FLAG |-> 4,
     FILE_PDF_CH_EXIT |-> 24,
     FILE_PDF_EVENT_NAME |-> 16,
     FILE_PDF_EVENT_EXIT |-> 32,
     FILE_PDF_PROCESS_BLOCKTYPE |-> 20,
     FILE_PDF_PROCESS_USER |-> 32,
     FILE_PDF_PROCESS_FNAME |-> 256,
     FILE_PDF_PROCESS_EXIT |-> 32,
     FILE_PDF_ASSOC_NEXT |-> 32,
     FILE_PDFED_NAME |-> 17,
     FILE_PDFED_NEXT |-> 9,
     FILE_PDF_H_FTYPE |-> 5,
     FILE_PDF_H_ENTER |-> 1,
     FILE_PDF_H_XLABEL |-> 16,
     FILE_PDF_H_NEXT |-> 2,
     FILE_PDF_H_EXIT |-> 20]

\* One step of a decoder: a primitive read or fid.seek(n, os.SEEK_CUR).
Rd(op) == [op |-> op, n |-> 1]
RdStr(n) == [op |-> "str", n |-> n]
Skip(n) == [op |-> "seek", n |-> n]

\* struct.calcsize of the format of one value.
PrimSize(op) ==
    CASE op = "int16" -> 2 [] op = "int32" -> 4 [] op = "float" -> 4 [] op = "double" -> 8

\* A variant of bti_read_str that stops reading at the first NUL.
str_to_nul(count, nul_at) == IF nul_at < count THEN nul_at + 1 ELSE count

\* bti_read_str(fid, count) reads struct.calcsize('>' + 'c' * count) bytes
\* and cuts the text at the first NUL, at index nul_at from 0 (count when
\* there is none).
str_consumed(count, nul_at) == count

\* The statements of each decoder, in order.
Layout(kind) ==
    CASE kind = "epoch" ->
           <<Rd("int32"), Rd("float"), Rd("float"), Rd("float"), Rd("int32"), Rd("int32"),
             Rd("int32"), Skip(BTI.FILE_PDF_EPOCH_EXIT)>>
      [] kind = "channel" ->
           <<RdStr(BTI.FILE_PDF_CH_LABELSIZE), Rd("int16"), Rd("int16"), Rd("float"),
             RdStr(BTI.FILE_PDF_CH_YLABEL), Rd("int16"), Skip(BTI.FILE_PDF_CH_NEXT),
             Rd("double"), Rd("double"), Rd("int32"), Rd("int32"),
             RdStr(BTI.FILE_PDF_CH_OFF_FLAG), Rd("float"), Skip(BTI.FILE_PDF_CH_EXIT)>>
      [] kind = "event" ->
           <<RdStr(BTI.FILE_PDF_EVENT_NAME), Rd("float"), Rd("float"), Rd("float"), Rd("int16"),
             Rd("int32"), Skip(BTI.FILE_PDF_EVENT_EXIT)>>
      [] kind = "process" ->
           <<Rd("int32"), RdStr(BTI.FILE_PDF_PROCESS_BLOCKTYPE), Rd("int32"),
             RdStr(BTI.FILE_PDF_PROCESS_USER), Rd("int32"), RdStr(BTI.FILE_PDF_PROCESS_FNAME),
             Rd("int32"), Skip(BTI.FILE_PDF_PROCESS_EXIT)>>
      [] kind = "assoc_file" ->
           <<Rd("int16"), Rd("int16"), Skip(BTI.FILE_PDF_ASSOC_NEXT), Rd("int32")>>
      [] kind = "pfid_ed" ->
           <<Rd("int32"), RdStr(BTI.FILE_PDFED_NAME), Skip(BTI.FILE_PDFED_NEXT), Rd("int16"),
             Rd("int32"), Rd("int32"), Rd("int32"), Rd("int32"), Rd("int32"), Rd("int32"),
             Rd("float"), Rd("float"), Skip(BTI.FILE_PDFED_NEXT)>>

\* The position after the steps of a layout, from pos, when every string
\* of the record has its first NUL at index nul_at (cut to the field).
RECURSIVE run_layout(_, _, _)
run_layout(layout, pos, nul_at) ==
    IF layout = <<>> THEN pos
    ELSE LET f == Head(layout)
             used == IF f.op = "seek" THEN f.n
                     ELSE IF f.op = "str"
                     THEN str_consumed(f.n, IF nul_at < f.n THEN nul_at ELSE f.n)
                     ELSE PrimSize(f.op)
         IN run_layout(Tail(layout), pos + used, nul_at)

DecoderKinds == {"epoch", "channel", "event", "process", "assoc_file", "pfid_ed"}

\* Where the first NUL of the record's strings is: at once, after three
\* characters, or beyond every field.
NulPlaces == {0, 3, 256}

NoDRec == [kind |-> "none", start |-> 0, nul_at |-> 0]

DecParked == drec = NoDRec /\ dpc = "none" /\ dend = 0

\* _read_bti_epoch(fid)
DecodeEpoch ==
    /\ drec.kind = "epoch" /\ dpc = "called"
    /\ dend' = run_layout(Layout("epoch"), drec.start, drec.nul_at)
    /\ dpc' = "returned"
    /\ UNCHANGED drec
    /\ UNCHANGED notdec

\* _read_channel(fid)
DecodeChannel ==
    /\ drec.kind = "channel" /\ dpc = "called"
    /\ dend' = run_layout(Layout("channel"), drec.start, drec.nul_at)
    /\ dpc' = "returned"
    /\ UNCHANGED drec
    /\ UNCHANGED notdec

\* A variant of _read_event without the realignment.
DecodeEventNoAlign ==
    /\ drec.kind = "event" /\ dpc = "called"
    /\ dend' = run_layout(Layout("event"), drec.start, drec.nul_at)
    /\ dpc' = "returned"
    /\ UNCHANGED drec
    /\ UNCHANGED notdec

\* _read_event(fid), with _correct_offset(fid) at its end
DecodeEvent ==
    /\ drec.kind = "event" /\ dpc = "called"
    /\ dend' = correct_offset(run_layout(Layout("event"), drec.start, drec.nul_at))
    /\ dpc' = "returned"
    /\ UNCHANGED drec
    /\ UNCHANGED notdec

\* _read_process(fid), with _correct_offset(fid) at its end
DecodeProcess ==
    /\ drec.kind = "process" /\ dpc = "called"
    /\ dend' = correct_offset(run_layout(Layout("process"), drec.start, drec.nul_at))
    /\ dpc' = "returned"
    /\ UNCHANGED drec
    /\ UNCHANGED notdec

\* _read_assoc_file(fid)
DecodeAssocFile ==
    /\ drec.kind = "assoc_file" /\ dpc = "called"
    /\ dend' = run_layout(Layout("assoc_file"), drec.start, drec.nul_at)
    /\ dpc' = "returned"
    /\ UNCHANGED drec
    /\ UNCHANGED notdec

\* _read_pfid_ed(fid)
DecodeEdClass ==
    /\ drec.kind = "pfid_ed" /\ dpc = "called"
    /\ dend' = run_layout(Layout("pfid_ed"), drec.start, drec.nul_at)
    /\ dpc' = "returned"
    /\ UNCHANGED drec
    /\ UNCHANGED notdec

-----------------------------------------------------------------------------
(* The ICA object as test_ica.py exercises it: construction, the two       *)
(* decompositions, the source getters, save and read_ica.                  *)

\* The objects of the tests: the one constructed and the one read back.
IcaObjects == {"ica", "ica_read"}

\* The recordings a decomposition can be fitted on.
MaxData == 2
DataIds == 1..MaxData

NoFit == [by |-> "none", data |-> 0]
NotConstructed == [by |-> "absent", data |-> 0]
NoFile == [by |-> "nofile", data |-> 0]

\* A variant of the fit check that never finds a fit.
never_fitted(f) == FALSE

\* The fit check of the methods: the object holds a decomposition.
is_fitted(f) == f.by \in {"raw", "epochs"}

ILast(op, obj, exc) == [op |-> op, obj |-> obj, exc |-> exc]
NoICall == ILast("none", "none", "")

IcaParked ==
    /\ fit = [o \in IcaObjects |-> NotConstructed]
    /\ saved = NoFile
    /\ ilast = NoICall

\* ica = ICA(...)
NewICA ==
    /\ fit' = [fit EXCEPT !["ica"] = NoFit]
    /\ ilast' = ILast("ICA", "ica", "")
    /\ UNCHANGED saved
    /\ UNCHANGED notica

\* ica.decompose_raw(raw, ...)
decompose_raw ==
    \E o \in IcaObjects, d \in DataIds :
      /\ fit[o] # NotConstructed
      /\ IF is_fitted(fit[o])
         THEN /\ ilast' = ILast("decompose_raw", o, "RuntimeError")
              /\ UNCHANGED fit
         ELSE /\ fit' = [fit EXCEPT ![o] = [by |-> "raw", data |-> d]]
              /\ ilast' = ILast("decompose_raw", o, "")
      /\ UNCHANGED saved
      /\ UNCHANGED notica

\* ica.decompose_epochs(epochs, ...)
decompose_epochs ==
    \E o \in IcaObjects, d \in DataIds :
      /\ fit[o] # NotConstructed
      /\ IF is_fitted(fit[o])
         THEN /\ ilast' = ILast("decompose_epochs", o, "RuntimeError")
              /\ UNCHANGED fit
         ELSE /\ fit' = [fit EXCEPT ![o] = [by |-> "epochs", data |-> d]]
              /\ ilast' = ILast("decompose_epochs", o, "")
      /\ UNCHANGED saved
      /\ UNCHANGED notica

\* ica.get_sources_raw(raw)
get_sources_raw ==
    \E o \in IcaObjects :
      /\ fit[o] # NotConstructed
      /\ ilast' = ILast("get_sources_raw", o,
                        IF is_fitted(fit[o]) THEN "" ELSE "RuntimeError")
      /\ UNCHANGED <<fit, saved>>
      /\ UNCHANGED notica

\* ica.get_sources_epochs(epochs); on a fitted object it also raises
\* RuntimeError when the epochs' channels are not the fitted ones.
get_sources_epochs ==
    \E o \in IcaObjects, channels_match \in BOOLEAN :
      /\ fit[o] # NotConstructed
      /\ ilast' = ILast("get_sources_epochs", o,
                        IF is_fitted(fit[o]) /\ channels_match THEN "" ELSE "RuntimeError")
      /\ UNCHANGED <<fit, saved>>
      /\ UNCHANGED notica

\* ica.save(fname)
save ==
    \E o \in IcaObjects :
      /\ fit[o] # NotConstructed
      /\ IF is_fitted(fit[o])
         THEN /\ saved' = fit[o]
              /\ ilast' = ILast("save", o, "")
         ELSE /\ ilast' = ILast("save", o, "RuntimeError")
              /\ UNCHANGED saved
      /\ UNCHANGED fit
      /\ UNCHANGED notica

\* ica_read = read_ica(fname), of a file save has written
read_ica ==
    /\ saved # NoFile
    /\ fit' = [fit EXCEPT !["ica_read"] = saved]
    /\ ilast' = ILast("read_ica", "ica_read", "")
    /\ UNCHANGED saved
    /\ UNCHANGED notica

-----------------------------------------------------------------------------
(* The exclude list of a fitted ICA object, as test_ica.py exercises it:   *)
(* pick_sources_raw merges its exclude argument into it, save writes it    *)
(* and read_ica restores it.                                               *)

\* ICA(n_components=3, ...): the components are 0, 1, 2.
n_components == 3
Components == 0..(n_components - 1)

\* The longest exclude list the test code assigns or passes.
MaxExcl == 3

SeqsUpTo(S, n) == UNION { [1..k -> S] : k \in 0..n }

\* A variant of the merge that appends the argument to the list.
concat_exclude(prev, E) == prev \o E

\* l with x put at its place in ascending order, unless it is there already.
RECURSIVE InsertUnique(_, _)
InsertUnique(l, x) ==
    IF l = <<>> THEN <<x>>
    ELSE IF x = Head(l) THEN l
    ELSE IF x < Head(l) THEN <<x>> \o l
    ELSE <<Head(l)>> \o InsertUnique(Tail(l), x)

RECURSIVE SortedUnique(_)
SortedUnique(l) == IF l = <<>> THEN <<>> ELSE InsertUnique(SortedUnique(Tail(l)), Head(l))

\* The list pick_sources_raw leaves in ica.exclude.
merge_exclude(prev, E) == SortedUnique(prev \o E)

ELast(op, arg) == [op |-> op, arg |-> arg]
NotWritten == [written |-> FALSE, list |-> <<>>]
Written(l) == [written |-> TRUE, list |-> l]

ExcParked ==
    /\ exclude = <<>> /\ exfile = NotWritten /\ exread = NotWritten
    /\ elast = ELast("none", <<>>)

\* ica.pick_sources_raw(raw, exclude=E)
pick_sources_raw ==
    \E E \in SeqsUpTo(Components, 2) :
      /\ exclude' = merge_exclude(exclude, E)
      /\ elast' = ELast("pick_sources_raw", E)
      /\ UNCHANGED <<exfile, exread>>
      /\ UNCHANGED notexc

\* ica.save(fname), of the fitted object
save_exclude ==
    /\ exfile' = Written(exclude)
    /\ elast' = ELast("save", <<>>)
    /\ UNCHANGED <<exclude, exread>>
    /\ UNCHANGED notexc

\* ica_read = read_ica(fname)
read_exclude ==
    /\ exfile.written
    /\ exread' = Written(exfile.list)
    /\ elast' = ELast("read_ica", <<>>)
    /\ UNCHANGED <<exclude, exfile>>
    /\ UNCHANGED notexc

-----------------------------------------------------------------------------
(* The trailing data of read_pdf_info: fid.read(ftr_pos - fid.tell()).     *)

\* BTI.FILE_END: the footer pointer is the last 8 bytes of the file.
FILE_END == -8

\* The offsets from a up to, not including, b.
Offsets(a, b) == [k \in 1..(IF b > a THEN b - a ELSE 0) |-> a + k - 1]

\* file.read(size) from position at of a file of filesize bytes: up to size
\* bytes, fewer at the end of the file; with a negative size, everything up
\* to the end of the file.
file_read(at, size, filesize) ==
    IF size < 0 THEN Offsets(at, filesize)
    ELSE Offsets(at, IF at + size < filesize THEN at + size ELSE filesize)

TailParked == tcur = 0 /\ tftr = 0 /\ extradata = <<>> /\ tpc = "none"

\* fid.seek(0, os.SEEK_CUR); info['extradata'] = fid.read(ftr_pos - fid.tell())
CaptureTail ==
    /\ tpc = "records read"
    /\ extradata' = file_read(tcur, tftr - tcur, tftr - FILE_END)
    /\ tpc' = "captured"
    /\ UNCHANGED <<tcur, tftr>>
    /\ UNCHANGED nottail

-----------------------------------------------------------------------------
(* _read_bti_header(fid): the header is found through the pointer in the   *)
(* last 8 bytes of the file, decoded, and the stream realigned.            *)

\* BTI.FILE_MASK has all of its low bits set and no other (2^31 - 1 in the
\* format).  The model keeps that form with MaskBits bits, so that file
\* sizes and pointers on both sides of the mask are in reach.
MaskBits == 5
FILE_MASK == 2^MaskBits - 1

\* p & BTI.FILE_MASK, for a pointer p of either sign.
AndMask(p) == p % (FILE_MASK + 1)

\* A variant that leaves the chosen pointer as it is.
header_position_unaligned(ftr_pos, p) ==
    IF ftr_pos + FILE_CURPOS - AndMask(p) <= FILE_MASK THEN AndMask(p) ELSE p

\* hdr_pos as lines 436-443 compute it from ftr_pos and the pointer read.
header_position(ftr_pos, p) ==
    LET test_val == AndMask(p)
        chosen == IF ftr_pos + FILE_CURPOS - test_val <= FILE_MASK THEN test_val ELSE p
    IN IF chosen % FILE_CURPOS # 0
       THEN chosen + (FILE_CURPOS - (chosen % FILE_CURPOS))
       ELSE chosen

\* The reads and skips of the header record after the seek to hdr_pos.
HeaderLayout ==
    <<Rd("int16"), RdStr(BTI.FILE_PDF_H_FTYPE), Skip(BTI.FILE_PDF_H_ENTER),
      Rd("int16"), Rd("int16"), Rd("int32"), Rd("int32"), Rd("int32"), Rd("int32"),
      Rd("float"), RdStr(BTI.FILE_PDF_H_XLABEL), Rd("int32"), Rd("int16"),
      Skip(BTI.FILE_PDF_H_NEXT),
      Rd("int32"), Rd("int32"), Rd("int16"), Rd("int16"), Rd("int32"),
      Skip(BTI.FILE_PDF_H_EXIT)>>

\* The layout up to its last read: the bytes the file has to hold.
HeaderReads == SubSeq(HeaderLayout, 1, Len(HeaderLayout) - 1)

HdrParked == hsize = 0 /\ hptr = 0 /\ hpos = 0 /\ hend = 0 /\ hpc = "none"

\* Lines 434-445: seek to the footer, read the pointer, choose hdr_pos and
\* seek there.  A seek to a negative offset raises IOError.
HeaderSeek ==
    /\ hpc = "opened"
    /\ IF hsize + FILE_END < 0
       THEN hpc' = "IOError" /\ UNCHANGED hpos
       ELSE LET pos == header_position(hsize + FILE_END, hptr)
            IN IF pos < 0
               THEN hpc' = "IOError" /\ UNCHANGED hpos
               ELSE hpc' = "at header" /\ hpos' = pos
    /\ UNCHANGED <<hsize, hptr, hend>>
    /\ UNCHANGED nothdr

\* Lines 449-476: the fields of the header, the skips, _correct_offset.  A
\* read that meets the end of the file raises struct.error.
HeaderFields ==
    /\ hpc = "at header"
    /\ IF run_layout(HeaderReads, hpos, 0) > hsize
       THEN hpc' = "struct.error" /\ UNCHANGED hend
       ELSE /\ hend' = correct_offset(run_layout(HeaderLayout, hpos, 0))
            /\ hpc' = "decoded"
    /\ UNCHANGED <<hsize, hptr, hpos>>
    /\ UNCHANGED nothdr

-----------------------------------------------------------------------------
(* convert_head_shape(idx_points, dig_points, use_hpi): the loop that      *)
(* gives every point of np.r_[fiducials_nm, dig_points_nm] its kind and    *)
(* ident.  A point is kept as its index, kind and ident.                   *)

\* The most index points and dig points of the model's head shapes.
MaxIdxPoints == 6
MaxDigPoints == 3

\* fiducials_idents = range(1, 4) + range(1, (len(fp) + 1) - 3)
fiducials_idents(n) == <<1, 2, 3>> \o [k \in 1..(n - 3) |-> k]

\* One turn of the loop for idx, with n index points: the point_info and
\* whether it is appended.
point_info(idx, n, use_hpi) ==
    LET p0 == [idx |-> idx, kind |-> "None", ident |-> 0]
        p1 == IF idx < 3
              THEN [p0 EXCEPT !.kind = "FIFFV_POINT_CARDINAL",
                              !.ident = fiducials_idents(n)[idx + 1]]
              ELSE p0
        p2 == IF 2 < idx /\ idx < n /\ use_hpi
              THEN [p1 EXCEPT !.kind = "FIFFV_POINT_HPI",
                              !.ident = fiducials_idents(n)[idx + 1]]
              ELSE IF idx > 4
              THEN [p1 EXCEPT !.kind = "FIFFV_POINT_EXTRA",
                              !.ident = (idx + 1) - Len(fiducials_idents(n))]
              ELSE p1
    IN [info |-> p2, appended |-> ~(2 < idx /\ idx < n /\ ~use_hpi)]

NoHsArg == [n_idx |-> 0, n_dig |-> 0, use_hpi |-> FALSE]

HsParked == hsarg = NoHsArg /\ hsidx = 0 /\ dig = <<>> /\ hspc = "none"

\* for idx in xrange(all_points.shape[0]): one turn
HeadShapePoint ==
    /\ hspc = "loop"
    /\ hsidx < hsarg.n_idx + hsarg.n_dig
    /\ LET p == point_info(hsidx, hsarg.n_idx, hsarg.use_hpi)
       IN dig' = IF p.appended THEN Append(dig, p.info) ELSE dig
    /\ hsidx' = hsidx + 1
    /\ UNCHANGED <<hsarg, hspc>>
    /\ UNCHANGED noths

\* return dig, t
HeadShapeReturn ==
    /\ hspc = "loop"
    /\ hsidx >= hsarg.n_idx + hsarg.n_dig
    /\ hspc' = "returned"
    /\ UNCHANGED <<hsarg, hsidx, dig>>
    /\ UNCHANGED noths

-----------------------------------------------------------------------------
(* patch_info(nearest).  A vector is a tuple; its indices are written from *)
(* 0 as in the code, so index i is element i + 1 of the tuple.             *)

\* The longest nearest vector of the model, and the vertex numbers in it.
MaxNearest == 4
NearestValues == {0, 1, 4}

\* np.argsort(a): a permutation of the indices that puts a in ascending
\* order.  The default sort is not stable, so equal values may come in any
\* order: every such permutation is a possible result.
ArgSorts(a) ==
    { p \in [1..Len(a) -> 0..(Len(a) - 1)] :
        /\ \A i, j \in 1..Len(a) : i # j => p[i] # p[j]
        /\ \A i \in 1..(Len(a) - 1) : a[p[i] + 1] <= a[p[i + 1] + 1] }

\* a[::-1]
Reversed(a) == [i \in 1..Len(a) |-> a[Len(a) + 1 - i]]

\* np.unique(a, return_index=True): the distinct values in ascending order
\* and, for each, the index (from 0) of its first occurrence in a.
UniqueValues(a) ==
    LET vals == { a[i] : i \in 1..Len(a) }
        RECURSIVE Asc(_)
        Asc(S) == IF S = {} THEN <<>>
                  ELSE LET lo == CHOOSE x \in S : \A y \in S : x <= y
                       IN <<lo>> \o Asc(S \ {lo})
    IN Asc(vals)

FirstIndex(a, v) == (CHOOSE i \in 1..Len(a) : a[i] = v /\ \A j \in 1..(i - 1) : a[j] # v) - 1

\* A variant of the slice that leaves out its last element.
slice_short(indn, lo, hi) == SubSeq(indn, lo + 1, hi - 1)

\* indn[lo:hi]
slice(indn, lo, hi) == SubSeq(indn, lo + 1, hi)

\* The body of patch_info for a vector and one result indn of np.argsort.
patch_info(a, indn) ==
    LET nearest_sorted == [i \in 1..Len(a) |-> a[indn[i] + 1]]
        uniq == UniqueValues(nearest_sorted)
        firsti == [k \in 1..Len(uniq) |-> FirstIndex(nearest_sorted, uniq[k])]
        lasti == [k \in 1..Len(uniq) |->
                    Len(a) - FirstIndex(Reversed(nearest_sorted), uniq[k])]
    IN [k \in 1..Len(uniq) |-> slice(indn, firsti[k], lasti[k])]

PiParked == nearest = None /\ pinfo = None /\ ppc = "none"

\* patch_info(None)
PatchInfoNone ==
    /\ ppc = "called" /\ nearest = None
    /\ pinfo' = None
    /\ ppc' = "returned"
    /\ UNCHANGED nearest
    /\ UNCHANGED notpi

\* patch_info(nearest) for a vector
PatchInfo ==
    /\ ppc = "called" /\ nearest # None
    /\ \E indn \in ArgSorts(nearest[1]) : pinfo' = Some(patch_info(nearest[1], indn))
    /\ ppc' = "returned"
    /\ UNCHANGED nearest
    /\ UNCHANGED notpi

-----------------------------------------------------------------------------
(* read_source_spaces(source, add_geom) and _read_one_source_space.  A     *)
(* source space block is described by which of its tags find_tag finds and *)
(* whether their row counts agree with the number of vertices and of       *)
(* triangles.                                                              *)

\* The most source space blocks of the model's files.
MaxSpaces == 2

TagStates == {"missing", "ok", "wrong"}

SpaceTags ==
    [has_np : BOOLEAN, has_coord : BOOLEAN, points : TagStates, normals : TagStates,
     ntri : {0, 2}, tris : TagStates, selection : {"no nuse"} \cup TagStates]

\* How _read_one_source_space ends: the exception ("" for a return),
\* whether it closed fid, and the 'tris' entry of res.
OneSpace(exc, closed, tris) == [exc |-> exc, closed |-> closed, tris |-> tris]

\* if tag is None: if open_here: fid.close(); raise ValueError -- the raise
\* is inside the inner if, so without open_here the next statement reads
\* tag.data of None.
missing_required(open_here, tris) ==
    IF open_here THEN OneSpace("ValueError", TRUE, tris)
    ELSE OneSpace("AttributeError", FALSE, tris)

\* if open_here: fid.close() / raise ValueError
close_and_raise(open_here, tris) == OneSpace("ValueError", open_here, tris)

\* Lines 166-184: the triangulation.  The else of line 183 belongs to the
\* row-count test of line 179.
read_tris(t, open_here) ==
    IF t.ntri > 0
    THEN IF t.tris = "missing" THEN close_and_raise(open_here, "absent")
         ELSE IF t.tris = "wrong" THEN close_and_raise(open_here, "data")
         ELSE OneSpace("", FALSE, "None")
    ELSE OneSpace("", FALSE, "absent")

\* _read_one_source_space(fid, this, open_here)
read_one_source_space(t, open_here) ==
    IF ~t.has_np THEN missing_required(open_here, "absent")
    ELSE IF ~t.has_coord THEN missing_required(open_here, "absent")
    ELSE IF t.points # "ok" THEN close_and_raise(open_here, "absent")
    ELSE IF t.normals # "ok" THEN close_and_raise(open_here, "absent")
    ELSE LET tr == read_tris(t, open_here)
         IN IF tr.exc # "" THEN tr
            ELSE IF t.selection \in {"missing", "wrong"}
            THEN close_and_raise(open_here, tr.tris)
            ELSE tr

\* complete_source_space_info(this): line 243 subscripts this['tris'].
complete_source_space_info(res) ==
    IF res.tris = "absent" THEN "KeyError"
    ELSE IF res.tris = "None" THEN "TypeError"
    ELSE ""

NoSsArg == [by_name |-> FALSE, add_geom |-> FALSE, spaces |-> 0,
            tags |-> [has_np |-> TRUE, has_coord |-> TRUE, points |-> "ok", normals |-> "ok",
                      ntri |-> 0, tris |-> "ok", selection |-> "ok"]]
NoSpace == OneSpace("none", FALSE, "absent")

SsParked ==
    /\ ssarg = NoSsArg /\ sfid = "none" /\ this = NoSpace /\ nsrc = 0
    /\ spc = "none" /\ sexc = ""

\* Lines 69-81: fid is opened here or handed in; no source space block
\* raises ValueError, after closing a file opened here.
FindSpaces ==
    /\ spc = "called"
    /\ IF ssarg.spaces = 0
       THEN /\ sfid' = IF ssarg.by_name THEN "closed" ELSE "open"
            /\ spc' = "raised" /\ sexc' = "ValueError"
       ELSE /\ sfid' = "open"
            /\ spc' = "loop" /\ UNCHANGED sexc
    /\ UNCHANGED <<ssarg, this, nsrc>>
    /\ UNCHANGED notss

\* this = _read_one_source_space(fid, s, open_here)
ReadOneSpace ==
    /\ spc = "loop" /\ nsrc < ssarg.spaces
    /\ LET r == read_one_source_space(ssarg.tags, ssarg.by_name)
       IN /\ this' = r
          /\ sfid' = IF r.closed THEN "closed" ELSE sfid
          /\ IF r.exc = "" THEN spc' = "read" /\ UNCHANGED sexc
             ELSE spc' = "raised" /\ sexc' = r.exc
    /\ UNCHANGED <<ssarg, nsrc>>
    /\ UNCHANGED notss

\* if add_geom: complete_source_space_info(this); src.append(this)
AppendSpace ==
    /\ spc = "read"
    /\ LET exc == IF ssarg.add_geom THEN complete_source_space_info(this) ELSE ""
       IN IF exc = ""
          THEN nsrc' = nsrc + 1 /\ spc' = "loop" /\ UNCHANGED sexc
          ELSE spc' = "raised" /\ sexc' = exc /\ UNCHANGED nsrc
    /\ UNCHANGED <<ssarg, sfid, this>>
    /\ UNCHANGED notss

\* Lines 93-98: if open_here: fid.close(); return src
ReturnSpaces ==
    /\ spc = "loop" /\ nsrc >= ssarg.spaces
    /\ sfid' = IF ssarg.by_name THEN "closed" ELSE sfid
    /\ spc' = "returned"
    /\ UNCHANGED <<ssarg, this, nsrc, sexc>>
    /\ UNCHANGED notss

-----------------------------------------------------------------------------
(* The info structures read_pdf_info hands to read_raw_data: one label per *)
(* channel, the element type of the header's data_format, and              *)
(* bytes_per_slice = itemsize * total_chans.                               *)

LabelLists == UNION { [1..n -> Labels] : n \in 0..MaxChans }

MakeInfo(slices, labels, fmt) ==
    [total_slices |-> slices, total_chans |-> Len(labels), channels |-> labels,
     dtype |-> fmt, bytes_per_slice |-> ItemSize(fmt) * Len(labels)]

\* Channel lists of the files read slice by slice: none, one and several
\* channels, MEG labels out of numeric order, a repeated label, and labels
\* whose sort key raises.
RawLabelLists ==
    { <<>>,
      << <<"A", "2">> >>,
      << <<"A", "1", "0">>, <<"A", "2">> >>,
      << <<"T">>, <<"E">>, <<"A", "2">> >>,
      << <<"E">>, <<"A">> >>,
      << <<"A", "2">>, <<>>, <<"A", "2">> >> }

Infos ==
    { MakeInfo(n, ls, f) : n \in 0..MaxSlices, ls \in RawLabelLists, f \in DataFormats }

OptInts == {None} \cup { Some(n) : n \in (-1)..(MaxSlices + 1) }

NoCall == [start |-> None, stop |-> None, order |-> "None", dtype |-> "f8", made |-> FALSE]

RawParked ==
    /\ info = MakeInfo(0, <<>>, 1) /\ fidpos = 0 /\ call = NoCall /\ ret = Raise("none")

\* Every part of the module but g is at rest.
Parked(g) ==
    /\ IF g = "raw" THEN TRUE ELSE RawParked
    /\ IF g = "pdf" THEN TRUE ELSE PdfParked
    /\ IF g = "off" THEN TRUE ELSE OffParked
    /\ IF g = "cfg" THEN TRUE ELSE CfgParked
    /\ IF g = "xfm" THEN TRUE ELSE XfmParked
    /\ IF g = "rn" THEN TRUE ELSE RenameParked
    /\ IF g = "bti" THEN TRUE ELSE BtiParked
    /\ IF g = "prim" THEN TRUE ELSE PrimParked
    /\ IF g = "dec" THEN TRUE ELSE DecParked
    /\ IF g = "ica" THEN TRUE ELSE IcaParked
    /\ IF g = "exc" THEN TRUE ELSE ExcParked
    /\ IF g = "tail" THEN TRUE ELSE TailParked
    /\ IF g = "hdr" THEN TRUE ELSE HdrParked
    /\ IF g = "hs" THEN TRUE ELSE HsParked
    /\ IF g = "pi" THEN TRUE ELSE PiParked
    /\ IF g = "ss" THEN TRUE ELSE SsParked

\* The handle is left at the footer by read_pdf_info; the data region ends
\* at or before it.
InitRaw ==
    /\ info \in Infos
    /\ fidpos = info.total_slices * info.bytes_per_slice
    /\ call = NoCall
    /\ ret = Raise("none")
    /\ Parked("raw")

ReadRawData ==
    \E start \in OptInts, stop \in OptInts, order \in {"by_name", "None"}, dtype \in OutTypes :
        /\ ret' = read_raw_data(info, start, stop, order, dtype)
        /\ fidpos' = read_raw_data_pos(info, fidpos, start, stop)
        /\ call' = [start |-> start, stop |-> stop, order |-> order, dtype |-> dtype,
                    made |-> TRUE]
        /\ UNCHANGED info
        /\ UNCHANGED notraw

NextRaw == ReadRawData

SpecRaw == InitRaw /\ [][NextRaw]_vars

\* The same reader on every channel list of up to MaxChans labels, called
\* for the whole recording in the default order 'by_name'.
InitByName ==
    /\ info \in { MakeInfo(n, ls, 1) : n \in {1, MaxSlices}, ls \in LabelLists }
    /\ fidpos = info.total_slices * info.bytes_per_slice
    /\ call = NoCall
    /\ ret = Raise("none")
    /\ Parked("raw")

ReadByName ==
    \E dtype \in OutTypes :
        /\ ret' = read_raw_data(info, None, None, "by_name", dtype)
        /\ fidpos' = read_raw_data_pos(info, fidpos, None, None)
        /\ call' = [start |-> None, stop |-> None, order |-> "by_name", dtype |-> dtype,
                    made |-> TRUE]
        /\ UNCHANGED info
        /\ UNCHANGED notraw

NextByName == ReadByName

SpecByName == InitByName /\ [][NextByName]_vars

InitPdf ==
    /\ pdf \in PdfFiles
    /\ pc = "closed"
    /\ rinfo = NoInfo
    /\ log = <<>>
    /\ fds = {}
    /\ pret = "none"
    /\ Parked("pdf")

NextPdf ==
    \/ OpenPdf \/ OpenFail \/ ReadHeader \/ ReadEpoch \/ ReadChannel \/ ReadEvent
    \/ ReadProcess \/ ReadAssocFile \/ ReadEdClass \/ ListDone \/ DecodeFail
    \/ Finish

SpecPdf == InitPdf /\ [][NextPdf]_vars

InitOffset ==
    /\ cur \in 0..MaxPos
    /\ last = NoOp
    /\ Parked("off")

NextOffset == SeekTo \/ CorrectOffset

SpecOffset == InitOffset /\ [][NextOffset]_vars

\* A behaviour reads one config file with read_config, or makes one direct
\* call of a record decoder.
InitCfg ==
    /\ \/ /\ cfgfile \in CfgFiles
          /\ cpc = "closed"
          /\ ucall = NoUCall
          /\ uret = UResult("none", None, FALSE)
       \/ /\ cfgfile = [blocks |-> <<>>]
          /\ cpc = "none"
          /\ ucall \in PendingCalls
          /\ uret = Pending
    /\ cret = "none"
    /\ Parked("cfg")

NextCfg ==
    \/ OpenCfg \/ OpenCfgFail \/ CfgHeader \/ CfgSeek
    \/ CallReadUserblock \/ CallReadChConfig

SpecCfg == InitCfg /\ [][NextCfg]_vars

InitXfm ==
    /\ xarg \in Transforms(OrthoRots \cup {Shear})
    /\ targ \in Transforms(OrthoRots \cup {Shear}) \cup {get_m_to_nm}
    /\ xop = "pending"
    /\ xres = T_IDENT
    /\ Parked("xfm")

NextXfm == RoundTrip \/ MergeLeft \/ MergeRight

SpecXfm == InitXfm /\ [][NextXfm]_vars

InitRename ==
    /\ names \in UNION { [1..n -> RenameLabels] : n \in 0..MaxNames }
    /\ rpc = "idle" /\ ri = 0 /\ counters = CountFromOne
    /\ yielded = <<>> /\ earlier = NoEarlier
    /\ Parked("rn")

NextRename == RenameCall \/ RenameNext \/ RenameStop

SpecRename == InitRename /\ [][NextRename]_vars

InitBti ==
    /\ bcall \in BtiCalls
    /\ bpc = "called"
    /\ bret = BPending
    /\ Parked("bti")

NextBti == BtiInit \/ CriHeader \/ CriChannelNames \/ CallReadHeadShape \/ CallReadSystemTrans

SpecBti == InitBti /\ [][NextBti]_vars

\* The two container readers: a behaviour is one call of read_pdf_info or
\* one call of read_config (or of a config record decoder).
InitReads ==
    \/ InitPdf
    \/ InitCfg

NextReads == NextPdf \/ NextCfg

SpecReads == InitReads /\ [][NextReads]_vars

InitPrim ==
    /\ stream \in UNION { [1..n -> ByteValues] : n \in 0..MaxBytes }
    /\ spos = 0
    /\ prim = NoPrim
    /\ pval = PResult("none", <<>>, FALSE)
    /\ Parked("prim")

NextPrim == ReadUint16 \/ ReadInt16

SpecPrim == InitPrim /\ [][NextPrim]_vars

InitDecode ==
    /\ drec \in [kind : DecoderKinds, start : 0..MaxPos, nul_at : NulPlaces]
    /\ dpc = "called"
    /\ dend = 0
    /\ Parked("dec")

NextDecode ==
    \/ DecodeEpoch \/ DecodeChannel \/ DecodeEvent \/ DecodeProcess
    \/ DecodeAssocFile \/ DecodeEdClass

SpecDecode == InitDecode /\ [][NextDecode]_vars

InitIca ==
    /\ fit = [o \in IcaObjects |-> IF o = "ica" THEN NoFit ELSE NotConstructed]
    /\ saved = NoFile
    /\ ilast = ILast("ICA", "ica", "")
    /\ Parked("ica")

NextIca ==
    \/ NewICA \/ decompose_raw \/ decompose_epochs \/ get_sources_raw
    \/ get_sources_epochs \/ save \/ read_ica

SpecIca == InitIca /\ [][NextIca]_vars

\* ica.exclude is an attribute the caller assigns: any list of components.
InitExclude ==
    /\ exclude \in SeqsUpTo(Components, MaxExcl)
    /\ exfile = NotWritten
    /\ exread = NotWritten
    /\ elast = ELast("none", <<>>)
    /\ Parked("exc")

NextExclude == pick_sources_raw \/ save_exclude \/ read_exclude

SpecExclude == InitExclude /\ [][NextExclude]_vars

\* The header takes at least one block.  The records end before, at or
\* after the footer position: a record whose last field is read from the
\* footer pointer's bytes ends inside the pointer or at the end of the file,
\* and a skip or the realignment moves the cursor on without reading.
InitTail ==
    /\ tftr \in FILE_CURPOS..MaxPos
    /\ tcur \in FILE_CURPOS..(tftr - FILE_END + FILE_CURPOS)
    /\ extradata = <<>>
    /\ tpc = "records read"
    /\ Parked("tail")

NextTail == CaptureTail

SpecTail == InitTail /\ [][NextTail]_vars

\* Files of every size up to three times MaxPos, with every pointer from
\* below zero to beyond twice the mask.
InitHeader ==
    /\ hsize \in 0..(3 * MaxPos)
    /\ hptr \in (-FILE_CURPOS - 1)..(2 * FILE_MASK + FILE_CURPOS + 2)
    /\ hpos = 0 /\ hend = 0
    /\ hpc = "opened"
    /\ Parked("hdr")

NextHeader == HeaderSeek \/ HeaderFields

SpecHeader == InitHeader /\ [][NextHeader]_vars

\* The header and the record decoders together.
InitAlign == InitHeader \/ InitDecode

NextAlign ==
    \/ HeaderSeek \/ HeaderFields
    \/ DecodeEpoch \/ DecodeChannel \/ DecodeEvent \/ DecodeProcess
    \/ DecodeAssocFile \/ DecodeEdClass

SpecAlign == InitAlign /\ [][NextAlign]_vars

\* fp[0], fp[1] and fp[2] are used: there are at least three index points.
InitHeadShape ==
    /\ hsarg \in [n_idx : 3..MaxIdxPoints, n_dig : 0..MaxDigPoints, use_hpi : BOOLEAN]
    /\ hsidx = 0
    /\ dig = <<>>
    /\ hspc = "loop"
    /\ Parked("hs")

NextHeadShape == HeadShapePoint \/ HeadShapeReturn

SpecHeadShape == InitHeadShape /\ [][NextHeadShape]_vars

\* Recordings of two and three channels in a 2-byte and an 8-byte format,
\* read any number of times through the same handle.
InitRepeat ==
    /\ info \in { MakeInfo(n, ls, f) :
                    n \in 0..MaxSlices,
                    ls \in { << <<"A", "1", "0">>, <<"A", "2">> >>,
                             << <<"T">>, <<"E">>, <<"A", "2">> >> },
                    f \in {1, 4} }
    /\ fidpos = info.total_slices * info.bytes_per_slice
    /\ call = NoCall
    /\ ret = Raise("none")
    /\ Parked("raw")

ReadRawDataAgain ==
    \E start \in OptInts, stop \in OptInts, order \in {"by_name", "None"}, dtype \in OutTypes :
        /\ ret' = read_raw_data_at(info, fidpos, start, stop, order, dtype)
        /\ fidpos' = handle_after(info, fidpos, start, stop)
        /\ call' = [start |-> start, stop |-> stop, order |-> order, dtype |-> dtype,
                    made |-> TRUE]
        /\ UNCHANGED info
        /\ UNCHANGED notraw

NextRepeat == ReadRawDataAgain

SpecRepeat == InitRepeat /\ [][NextRepeat]_vars

InitPatch ==
    /\ nearest \in {None} \cup { Some(a) : a \in UNION { [1..n -> NearestValues] : n \in 0..MaxNearest } }
    /\ pinfo = None
    /\ ppc = "called"
    /\ Parked("pi")

NextPatch == PatchInfoNone \/ PatchInfo

SpecPatch == InitPatch /\ [][NextPatch]_vars

\* A file name or an open descriptor, with or without add_geom, of a file
\* with up to MaxSpaces source space blocks of the same tags.
InitSpaces ==
    /\ ssarg \in [by_name : BOOLEAN, add_geom : BOOLEAN, spaces : 0..MaxSpaces, tags : SpaceTags]
    /\ sfid = IF ssarg.by_name THEN "none" ELSE "open"
    /\ this = NoSpace
    /\ nsrc = 0
    /\ spc = "called"
    /\ sexc = ""
    /\ Parked("ss")

NextSpaces == FindSpaces \/ ReadOneSpace \/ AppendSpace \/ ReturnSpaces

SpecSpaces == InitSpaces /\ [][NextSpaces]_vars

-----------------------------------------------------------------------------
(* Claims about read_raw_data.                                             *)

\* The range of a call as the caller sees it.
CallStart(c) == IF c.start = None THEN 0 ELSE c.start[1]
CallStop(c, total) == IF c.stop = None THEN total ELSE c.stop[1]

CallRangeBad(c, total) ==
    CallStart(c) < 0 \/ CallStop(c, total) > total \/ CallStart(c) >= CallStop(c, total)

\* C1: a call whose sample-slice range (after the None defaults) has
\* start < 0, stop > total_slices or start >= stop raises the range error
\* (RuntimeError) and leaves the position of info['fid'] where it was.
C1_RejectsInvalidRange ==
    [][ (call'.made /\ CallRangeBad(call', info.total_slices))
          => (ret'.kind = "RuntimeError" /\ fidpos' = fidpos) ]_vars

\* C1 witness: an empty range (start = stop = 1) on a recording with data
\* was rejected.
C1_Witness ==
    /\ call.made /\ call.start = Some(1) /\ call.stop = Some(1)
    /\ info.total_slices = 2 /\ info.total_chans = 2
    /\ ret.kind = "RuntimeError"

\* C2: for a valid range and order=None the result has shape
\* [total_chans, stop-start] and its entry (c, s) is the on-disk element
\* with flat index (start+s)*total_chans + c, cast to the requested type.
C2_ReturnsSlices ==
    (call.made /\ call.order = "None" /\ ~CallRangeBad(call, info.total_slices)) =>
      LET a == CallStart(call)
          n == CallStop(call, info.total_slices) - a
      IN /\ ret.kind = "ok"
         /\ ret.shape = <<info.total_chans, n>>
         /\ DOMAIN ret.data = 1..info.total_chans
         /\ \A c \in 1..info.total_chans :
              /\ DOMAIN ret.data[c] = 1..n
              /\ \A s \in 1..n :
                   ret.data[c][s] =
                     Astype(DiskElem((a + s - 1) * info.total_chans + (c - 1), info.dtype),
                            call.dtype)

\* C2 witness: the whole recording (2 slices of 3 channels, stored as f8)
\* was read in acquisition order into an integer matrix.
C2_Witness ==
    /\ call.made /\ call.order = "None" /\ call.start = Some(0) /\ call.stop = None
    /\ call.dtype = "i2" /\ info.dtype = 4
    /\ info.total_slices = 2 /\ info.total_chans = 3
    /\ ret.kind = "ok" /\ ret.shape = <<3, 2>>

KeyOf(i) == SortKey(info.channels[i])

\* C3: with order='by_name' the row order applied is a permutation of the
\* acquisition indices, and it is the one the labels alone determine: keys
\* never decrease along it and equal keys keep their acquisition order;
\* row r of the result is acquisition row order[r].
C3_ByNamePermutation ==
    (call.made /\ call.order = "by_name" /\ ret.kind = "ok") =>
      LET ord == ret.order
          a   == CallStart(call)
          n   == CallStop(call, info.total_slices) - a
      IN /\ Len(ord) = info.total_chans
         /\ \A i \in 1..info.total_chans : Cardinality({r \in 1..Len(ord) : ord[r] = i}) = 1
         /\ \A r1, r2 \in 1..Len(ord) :
              r1 < r2 =>
                /\ ~KeyLess(KeyOf(ord[r2]), KeyOf(ord[r1]))
                /\ (~KeyLess(KeyOf(ord[r1]), KeyOf(ord[r2])) => ord[r1] < ord[r2])
         /\ \A r \in 1..Len(ord) : \A s \in 1..n :
              ret.data[r][s] =
                Astype(DiskElem((a + s - 1) * info.total_chans + (ord[r] - 1), info.dtype),
                       call.dtype)

\* C3 witness: channels labelled A10, A2 were returned as A2, A10.
C3_Witness ==
    /\ call.made /\ call.order = "by_name" /\ ret.kind = "ok"
    /\ info.channels = << <<"A", "1", "0">>, <<"A", "2">> >>
    /\ ret.order = <<2, 1>>

-----------------------------------------------------------------------------
(* Claims about read_pdf_info.                                             *)

\* The place of a decoder in the order header, epoch, channel, event,
\* process, associated file, editor class.
KindRank(k) ==
    CASE k = "header" -> 0 [] k = "epochs" -> 1 [] k = "channels" -> 2
      [] k = "events" -> 3 [] k = "processes" -> 4 [] k = "assocfiles" -> 5
      [] k = "edclasses" -> 6

Calls(k) == Cardinality({i \in 1..Len(log) : log[i] = k})

\* C4: the header is decoded first and once; the record decoders are then
\* called kind by kind in the order epoch, channel, event, process,
\* associated file, editor class, never more often than the header count
\* of the file says, and when read_pdf_info returns, each list holds
\* exactly as many records as the header count.
C4_DecodeOrder ==
    /\ log # <<>> => (log[1] = "header" /\ Calls("header") = 1)
    /\ \A i, j \in 1..Len(log) : i < j => KindRank(log[i]) <= KindRank(log[j])
    /\ Calls("epochs") <= pdf.total_epochs
    /\ Calls("channels") <= pdf.total_chans
    /\ Calls("events") <= pdf.total_events
    /\ Calls("processes") <= pdf.total_processes
    /\ Calls("assocfiles") <= pdf.total_associated_files
    /\ Calls("edclasses") <= pdf.total_ed_classes
    /\ pc = "done" =>
         /\ Len(rinfo.epochs) = pdf.total_epochs /\ Calls("epochs") = pdf.total_epochs
         /\ Len(rinfo.channels) = pdf.total_chans /\ Calls("channels") = pdf.total_chans
         /\ Len(rinfo.events) = pdf.total_events /\ Calls("events") = pdf.total_events
         /\ Len(rinfo.processes) = pdf.total_processes
         /\ Calls("processes") = pdf.total_processes
         /\ Len(rinfo.assocfiles) = pdf.total_associated_files
         /\ Calls("assocfiles") = pdf.total_associated_files
         /\ Len(rinfo.edclasses) = pdf.total_ed_classes
         /\ Calls("edclasses") = pdf.total_ed_classes

\* C4 witness: a file with records of all six kinds was read to the end.
C4_Witness ==
    /\ pc = "done"
    /\ pdf.total_epochs = 2 /\ pdf.total_chans = 2
    /\ \A k \in {"header", "epochs", "channels", "events", "processes", "assocfiles",
                  "edclasses"} : Calls(k) >= 1

\* The sum of the pts_in_epoch fields of the first n epoch records of the
\* file.
RECURSIVE FilePts(_, _)
FilePts(f, n) == IF n = 0 THEN 0 ELSE FilePts(f, n - 1) + f.pts[n]

\* C5: the total_slices of the returned info is the sum of pts_in_epoch
\* over the decoded epoch records (0 without epochs); two epochs of 100
\* points give 200.
C5_TotalSlices ==
    pc = "done" =>
      /\ rinfo.total_slices = Some(FilePts(pdf, pdf.total_epochs))
      /\ \A i \in 1..pdf.total_epochs : rinfo.epochs[i].pts_in_epoch = pdf.pts[i]
      /\ pdf.total_epochs = 0 => rinfo.total_slices = Some(0)
      /\ pdf.pts = <<100, 100>> => rinfo.total_slices = Some(200)

\* C5 witness: a file with two epochs of 100 points was read to the end.
C5_Witness ==
    pc = "done" /\ pdf.pts = <<100, 100>> /\ rinfo.total_slices = Some(200)

-----------------------------------------------------------------------------
(* Claims about _correct_offset.                                           *)

\* C6: one application of the offset correction moves the stream from p to
\* the smallest multiple of the block size that is >= p, and an application
\* that follows another one leaves the position unchanged.
C6_OffsetIdempotent ==
    [][ last'.op = "correct" =>
          /\ cur' % FILE_CURPOS = 0
          /\ cur' >= cur
          /\ cur' - cur < FILE_CURPOS
          /\ \A m \in cur..cur' : m % FILE_CURPOS = 0 => m = cur'
          /\ last.op = "correct" => cur' = cur ]_vars

\* C6 witness: the correction was applied twice in a row from position 13
\* and the stream stands at 16.
C6_Witness ==
    /\ last.op = "correct" /\ last.again /\ last.first = 13 /\ last.from = 16
    /\ cur = 16

-----------------------------------------------------------------------------
(* Claims about the config decoders.                                       *)

IOErrors == {"IOError", "struct.error"}

\* The first version dictionary of kind ver in a list of decoded blocks.
HasVersion(l, ver) == \E i \in 1..Len(l) : l[i].kind = ver
FirstVersion(l, ver) ==
    l[CHOOSE i \in 1..Len(l) :
        l[i].kind = ver /\ \A j \in 1..(i - 1) : l[j].kind # ver]

DecodedEarlier(l) == \A i \in 1..Len(l) : ~l[i].isnone /\ l[i].has_data

CountedFrom(ver) ==
    LET l == ucall.blocks.list
    IN IF HasVersion(l, ver)
       THEN uret.exc = "" /\ uret.num = Some(FirstVersion(l, ver).entries)
       ELSE uret.exc = "ValueError"

\* C7: a channel-map block takes its channel count from the entries field
\* of a channel-map-version block decoded earlier in the same file
\* (likewise subsystem / subsystem-version), and decoding fails with the
\* dependency error when there is none: read_config on a file whose user
\* blocks are a version block with entries=4 and a channel-map block
\* succeeds, and without the version block it raises the dependency error.
C7_ChannelMapCount ==
    /\ (cpc \in {"done", "failed"} /\ cret \notin IOErrors) =>
         /\ (Len(cfgfile.blocks) = 2
               /\ cfgfile.blocks[1] = [kind |-> "B_WHChanMapVer", entries |-> 4, nbytes |-> 16]
               /\ cfgfile.blocks[2].kind = "B_WHChanMap") => cret = "ok"
         /\ (Len(cfgfile.blocks) = 1 /\ cfgfile.blocks[1].kind = "B_WHChanMap")
               => cret = "ValueError"
    /\ (ucall.fn = "_read_userblock" /\ uret # Pending /\ ucall.blocks.given
          /\ DecodedEarlier(ucall.blocks.list)) =>
         /\ ucall.blk.kind = "B_WHChanMap" => CountedFrom("B_WHChanMapVer")
         /\ ucall.blk.kind = "B_WHSubsys" => CountedFrom("B_WHSubsysVer")

\* C8: decoding a user block whose tag is none of the recognized tags does
\* not raise; the block is returned with its remaining bytes as an opaque
\* payload, the cursor past them.
C8_OpaqueUserBlock ==
    (ucall.fn = "_read_userblock" /\ uret # Pending /\ ucall.blocks.given
       /\ ucall.blk.kind \notin RecognizedTags) =>
      /\ uret.exc = ""
      /\ uret.value # None
      /\ uret.payload_read

\* C9: channel-config decoding of a record whose channel-type tag is none
\* of the eight known tags fails with a format error and returns no record.
C9_UnknownChannelType ==
    (ucall.fn = "_read_ch_config" /\ uret # Pending
       /\ ucall.ch_type \notin KnownChTypes) =>
      /\ uret.exc \in {"ValueError", "struct.error"}
      /\ uret.value = None

-----------------------------------------------------------------------------
(* Claims about the transform helpers.                                     *)

Orthogonal(r) == Dot33(TransposeOf(r), r) = RotOf(T_IDENT)

\* C10: apply(invert(x, t), t) = x for every x and every t whose rotation
\* block is orthogonal and whose scale entries are not zero.
C10_InverseRoundTrip ==
    (xop = "roundtrip" /\ Orthogonal(RotOf(targ))
       /\ \A j \in 1..4 : ScaOf(targ)[j] # 0) => xres = xarg

\* C11: merging with the identity on either side gives the transform back,
\* whatever its bottom row.
C11_MergeIdentity ==
    (xop \in {"merge_left", "merge_right"}) => xres = targ

-----------------------------------------------------------------------------
(* Claims about _rename_channels.                                          *)

\* C12: a call yields one name per label, in order, and a second call on
\* the same list yields the same names as the first, position by position.
C12_RenameDeterministic ==
    /\ rpc \in {"running", "done"} => (Len(yielded) = ri /\ ri <= Len(names))
    /\ rpc = "done" => Len(yielded) = Len(names)
    /\ (rpc \in {"running", "done"} /\ earlier.made) =>
         /\ Len(earlier.out) = Len(names)
         /\ \A j \in 1..Len(yielded) : yielded[j] = earlier.out[j]

\* C12 witness: the second call on Mx, Mx, EOG ended, with RFM 002 second.
C12_Witness ==
    /\ rpc = "done" /\ earlier.made
    /\ names = <<L_Mx, L_Mx, L_EOG>>
    /\ yielded = << <<"RFM ", "0", "0", "1">>, <<"RFM ", "0", "0", "2">>,
                    <<"EOG ", "0", "0", "1">> >>

\* The category of a label.
CategoryOf(l) ==
    IF StartsWith(l, <<"A">>) THEN "MEG "
    ELSE IF l = L_RESPONSE THEN "SRI 013"
    ELSE IF l = L_TRIGGER THEN "STI 014"
    ELSE IF StartsWith(l, L_EOG) THEN "EOG "
    ELSE IF l = L_ECG THEN "ECG 001"
    ELSE IF l = L_UACurrent THEN "UTL 001"
    ELSE IF StartsWith(l, <<"M">>) THEN "RFM "
    ELSE IF StartsWith(l, <<"G">>) THEN "RFG "
    ELSE IF StartsWith(l, <<"X">>) THEN "EXT "
    ELSE "other"

NumberedCategories == {"MEG ", "RFM ", "RFG ", "EXT ", "EOG "}
FixedNames == {"SRI 013", "STI 014", "ECG 001", "UTL 001"}

RankInCategory(j) ==
    Cardinality({k \in 1..j : CategoryOf(names[k]) = CategoryOf(names[j])})

\* C13: the k-th label of a numbered category (MEG, RFM, RFG, EXT, EOG), in
\* input order, is given suffix k whatever other labels come before it;
\* trigger, response, ECG and utility labels get their fixed names.
C13_SequentialPerCategory ==
    rpc \in {"running", "done"} =>
      \A j \in 1..Len(yielded) :
        LET c == CategoryOf(names[j])
        IN /\ c \in NumberedCategories => yielded[j] = <<c>> \o Fmt3(RankInCategory(j))
           /\ c \in FixedNames => yielded[j] = <<c>>

-----------------------------------------------------------------------------
(* Claims about RawBTi.                                                    *)

\* The recording info is built by the constructor or by _create_raw_info.
BuildsInfo == bcall.fn \in {"RawBTi", "_create_raw_info"} /\ bpc \in {"done", "failed"}

\* C14: when the recording info is built without a device-to-head transform
\* file, or with one that cannot be read, building ends without error with
\* the identity as system transform and the MEG channels in frame 'head';
\* with a file that reads well the MEG channels are in frame 'device' and
\* the transform read is used.
C14_SysTransFallback ==
    (BuildsInfo /\ bcall.fn = "_create_raw_info" /\ bcall.hdr_ok) =>
      /\ bret.exc = ""
      /\ bcall.dev # "readable" =>
           (bret.info.sys_trans = "identity" /\ bret.info.meg_frame = "head")
      /\ bcall.dev = "readable" =>
           (bret.info.sys_trans = "read" /\ bret.info.meg_frame = "device")

\* C15: when the head-shape file is missing or cannot be read, building the
\* recording info still ends without error, a warning is logged and the
\* device-to-head transform of the info is the identity.
C15_HeadShapeFallback ==
    (BuildsInfo /\ bcall.hdr_ok /\ bcall.hs \in {"truncated", "missing"}) =>
      /\ bret.exc = ""
      /\ bret.log # <<>>
      /\ bret.info.dev_head_t = "identity"

\* C19: the constructor ends without error; with force_units=False the
\* magnetometer rows are left as read, with True they are multiplied by
\* 1e-15, with a float by that float; other rows are never rescaled.
C19_ForceUnits ==
    (bcall.fn = "RawBTi" /\ bpc \in {"done", "failed"}) =>
      /\ bret.exc = ""
      /\ bret.info.other_scale = "1"
      /\ bcall.force_units = "False" => bret.info.mag_scale = "1"
      /\ bcall.force_units = "True" => bret.info.mag_scale = "1e-15"
      /\ bcall.force_units = "float" => bret.info.mag_scale = "f"

-----------------------------------------------------------------------------
(* Claims about failed reads.                                              *)

ReadErrors == {"IOError", "struct.error", "KeyError", "TypeError", "ValueError"}

\* C16: when a read of read_pdf_info or read_config fails, the call ends
\* with the error and hands back no structure, not even a partial one, and
\* from then on no decoder is called on the file and nothing changes.
C16_AllOrNothing ==
    [][ /\ pc' = "failed" => (pret' \in ReadErrors /\ rinfo' = NoInfo)
        /\ pc' = "done" => pret' = "ok"
        /\ pc = "failed" => (pc' = "failed" /\ log' = log /\ pret' = pret /\ rinfo' = rinfo)
        /\ cpc' = "failed" => cret' \in ReadErrors
        /\ cpc = "failed" => (cpc' = "failed" /\ cret' = cret) ]_vars

\* C16 witness: read_pdf_info failed on a truncated file after the header
\* and two records had been decoded.
C16_Witness ==
    pc = "failed" /\ pret = "struct.error" /\ Len(log) = 3 /\ rinfo = NoInfo

-----------------------------------------------------------------------------
(* Claims about the primitive readers.                                     *)

\* The two's-complement value of two big-endian bytes.
TwosComplement16(hi, lo) ==
    LET u == hi * 256 + lo IN IF u >= 32768 THEN u - 65536 ELSE u

\* C17: bti_read_int16 decodes each pair of big-endian bytes as a
\* two's-complement value in -32768..32767 (FF FF is -1, 80 00 is -32768),
\* bti_read_uint16 as a value in 0..65535, and both advance the stream by
\* two bytes per value.
C17_Int16Signed ==
    (prim.fn \in {"bti_read_int16", "bti_read_uint16"} /\ pval.exc = "") =>
      /\ spos = prim.from + 2 * prim.count
      /\ Len(pval.vals) = prim.count
      /\ \A k \in 1..prim.count :
           LET hi == stream[prim.from + 2 * k - 1]
               lo == stream[prim.from + 2 * k]
           IN IF prim.fn = "bti_read_int16"
              THEN /\ pval.vals[k] \in (-32768)..32767
                   /\ pval.vals[k] = TwosComplement16(hi, lo)
                   /\ (hi = 255 /\ lo = 255) => pval.vals[k] = -1
                   /\ (hi = 128 /\ lo = 0) => pval.vals[k] = -32768
              ELSE /\ pval.vals[k] \in 0..65535
                   /\ pval.vals[k] = hi * 256 + lo

-----------------------------------------------------------------------------
(* Claims about the record decoders.                                       *)

\* The fields and skips of each record kind, added up.
FixedWidth(kind) ==
    CASE kind = "epoch" -> 7 * 4 + BTI.FILE_PDF_EPOCH_EXIT
      [] kind = "channel" ->
           BTI.FILE_PDF_CH_LABELSIZE + 2 + 2 + 4 + BTI.FILE_PDF_CH_YLABEL + 2 + BTI.FILE_PDF_CH_NEXT
           + 8 + 8 + 4 + 4 + BTI.FILE_PDF_CH_OFF_FLAG + 4 + BTI.FILE_PDF_CH_EXIT
      [] kind = "event" -> BTI.FILE_PDF_EVENT_NAME + 3 * 4 + 2 + 4 + BTI.FILE_PDF_EVENT_EXIT
      [] kind = "process" ->
           4 + BTI.FILE_PDF_PROCESS_BLOCKTYPE + 4 + BTI.FILE_PDF_PROCESS_USER + 4
           + BTI.FILE_PDF_PROCESS_FNAME + 4 + BTI.FILE_PDF_PROCESS_EXIT
      [] kind = "assoc_file" -> 2 + 2 + BTI.FILE_PDF_ASSOC_NEXT + 4
      [] kind = "pfid_ed" -> 4 + BTI.FILE_PDFED_NAME + BTI.FILE_PDFED_NEXT + 2 + 6 * 4 + 2 * 4
                             + BTI.FILE_PDFED_NEXT

RealignedKinds == {"event", "process"}

\* The bytes a record of the kind takes when it starts at offset 0.
WidthFromZero(kind) ==
    IF kind \in RealignedKinds
    THEN CHOOSE m \in FixedWidth(kind)..(FixedWidth(kind) + FILE_CURPOS - 1) :
           m % FILE_CURPOS = 0
    ELSE FixedWidth(kind)

\* C18 as stated: every decoder consumes the fixed width of its record
\* kind, whatever the field values and wherever the record starts.
C18_FixedWidthAnywhere ==
    dpc = "returned" => dend - drec.start = WidthFromZero(drec.kind)

\* C18 amended: the epoch, channel, associated-file and editor-class
\* decoders consume the fixed width of their record kind whatever the
\* field values and the start offset; the event and process decoders
\* consume the fixed width and then the padding, of less than one block, up
\* to the next block boundary.
C18_FixedWidthOrRealigned ==
    dpc = "returned" =>
      LET w == FixedWidth(drec.kind)
      IN IF drec.kind \in RealignedKinds
         THEN /\ dend % FILE_CURPOS = 0
              /\ dend >= drec.start + w
              /\ dend < drec.start + w + FILE_CURPOS
         ELSE dend - drec.start = w

\* C18 witness: an event record that starts at offset 3 was decoded, and
\* the stream stands at 72, 69 bytes on.
C18_Witness ==
    /\ dpc = "returned" /\ drec.kind = "event" /\ drec.start = 3 /\ drec.nul_at = 3
    /\ dend = 72

-----------------------------------------------------------------------------
(* Claims about the ICA object.                                            *)

Decompositions == {"decompose_raw", "decompose_epochs"}
NeedsFit == {"get_sources_raw", "get_sources_epochs", "save"}

\* C20: on an object never decomposed, get_sources_raw, get_sources_epochs
\* and save raise RuntimeError; on an object that holds a decomposition,
\* fitted or read back, every decompose_raw and decompose_epochs raises
\* RuntimeError and the decomposition stays as it was.
C20_OneShotLifecycle ==
    [][\A o \in IcaObjects :
         ilast'.obj = o =>
           /\ (ilast'.op \in NeedsFit /\ fit[o] = NoFit) => ilast'.exc = "RuntimeError"
           /\ (ilast'.op \in Decompositions /\ fit[o].by \in {"raw", "epochs"}) =>
                (ilast'.exc = "RuntimeError" /\ fit'[o] = fit[o])]_vars

\* C20 witness: decompose_epochs was refused on the object read back from
\* a file, which still holds the decomposition fitted on raw data that the
\* first object saved.
C20_Witness ==
    /\ ilast = ILast("decompose_epochs", "ica_read", "RuntimeError")
    /\ fit["ica_read"] = [by |-> "raw", data |-> 2]
    /\ saved = fit["ica_read"]

-----------------------------------------------------------------------------
(* Claims about the exclude list.                                          *)

Elems(l) == { l[i] : i \in 1..Len(l) }
Ascending(l) == \A i \in 1..(Len(l) - 1) : l[i] < l[i + 1]

-----------------------------------------------------------------------------
(* Claims about the handles of read_pdf_info.                              *)

\* C27: when read_pdf_info has returned, the handle it opened is closed and
\* exactly the duplicated handle is open; when it has raised, no handle on
\* the file is open.
C27_HandlesOwned ==
    /\ pc = "done" => fds = {"dup"}
    /\ pc = "failed" => fds = {}

-----------------------------------------------------------------------------
(* Claims about the trailing data.                                         *)

\* C25: the trailing data is exactly the bytes from the position after the
\* last record up to, not including, the footer position, and nothing when
\* the position is at or past the footer position.
C25_TrailingData ==
    tpc = "captured" =>
      /\ Len(extradata) = (IF tftr > tcur THEN tftr - tcur ELSE 0)
      /\ \A k \in 1..Len(extradata) : extradata[k] = tcur + k - 1 /\ extradata[k] < tftr

-----------------------------------------------------------------------------
(* Claims about the header location.                                       *)

\* The pointer value the header is looked for at.
SelectedPointer ==
    LET f == hsize + FILE_END
        masked == CHOOSE v \in 0..FILE_MASK : \E q \in -2..2 : hptr = q * (FILE_MASK + 1) + v
    IN IF f + FILE_CURPOS - masked <= FILE_MASK THEN masked ELSE hptr

\* C23: once the stream is at the header, hdr_pos is the selected pointer
\* value (the masked pointer when footer position + block size - masked
\* value <= mask, else the pointer) rounded up to a block boundary: a
\* multiple of the block size, at or above the selected value and less than
\* one block above it.
C23_HeaderLocation ==
    hpc \in {"at header", "decoded", "struct.error"} =>
      /\ hpos % FILE_CURPOS = 0
      /\ hpos >= SelectedPointer
      /\ hpos < SelectedPointer + FILE_CURPOS

\* C23 witness: a file of 118 bytes whose pointer 33 is taken as it is
\* (110 + 8 - 1 > 31): the header was decoded from 40.
C23_Witness ==
    /\ hpc = "decoded" /\ hsize = 118 /\ hptr = 33 /\ hpos = 40

-----------------------------------------------------------------------------
(* Claims about the realignment.                                           *)

\* C22: when the header, an event record or a process record has been
\* decoded, the stream is on a block boundary; the epoch and channel
\* decoders end at their start plus the width of their fields and skips,
\* on a boundary or not.
C22_RealignedKinds ==
    /\ hpc = "decoded" => hend % FILE_CURPOS = 0
    /\ (dpc = "returned" /\ drec.kind \in {"event", "process"}) => dend % FILE_CURPOS = 0
    /\ (dpc = "returned" /\ drec.kind \in {"epoch", "channel"}) =>
         dend = drec.start + FixedWidth(drec.kind)

\* C22 witness: an event record that starts at offset 5 was decoded and
\* left the stream on the boundary 72.
C22_Witness ==
    /\ dpc = "returned" /\ drec.kind = "event" /\ drec.start = 5 /\ dend = 72

-----------------------------------------------------------------------------
(* Claims about convert_head_shape.                                        *)

\* C24: of the points returned, those of index 0-2 are cardinal, those of
\* index 3 up to the number of index points are HPI points and are there
\* only with use_hpi, and those from that number on are extra points; with
\* use_hpi unset, 3 + (the number of dig points) points are returned.
C24_PointKinds ==
    hspc = "returned" =>
      /\ \A k \in 1..Len(dig) :
           /\ dig[k].idx < 3 => dig[k].kind = "FIFFV_POINT_CARDINAL"
           /\ (3 <= dig[k].idx /\ dig[k].idx < hsarg.n_idx) =>
                (hsarg.use_hpi /\ dig[k].kind = "FIFFV_POINT_HPI")
           /\ dig[k].idx >= hsarg.n_idx => dig[k].kind = "FIFFV_POINT_EXTRA"
      /\ ~hsarg.use_hpi => Len(dig) = 3 + hsarg.n_dig

-----------------------------------------------------------------------------
(* Claims about repeated reads.                                            *)

\* C26: whatever calls came before on the same info, a call returns or
\* raises what the same call does as the first one on that info, when the
\* handle is still where read_pdf_info left it.
C26_HistoryIndependent ==
    call.made =>
      ret = read_raw_data_at(info, info.total_slices * info.bytes_per_slice,
                             call.start, call.stop, call.order, call.dtype)

\* C26 witness: a call with start 2 on a two-slice recording was rejected
\* after an earlier call had read the first slice and left the handle
\* behind it.
C26_Witness ==
    /\ call.made /\ call.start = Some(2) /\ call.stop = None
    /\ ret.kind = "RuntimeError" /\ info.total_slices = 2 /\ info.total_chans = 2
    /\ fidpos = info.bytes_per_slice

-----------------------------------------------------------------------------
(* Claims about patch_info.                                                *)

GroupSet(g) == { g[i] : i \in 1..Len(g) }

\* C29: for None, patch_info returns None.  For a vector it returns one
\* group per distinct value, the groups in ascending order of their value;
\* group k holds, once each, exactly the indices at which the vector has
\* the k-th distinct value, so the groups are disjoint and cover every
\* index.
C29_PatchPartition ==
    ppc = "returned" =>
      IF nearest = None THEN pinfo = None
      ELSE LET a == nearest[1]
               groups == pinfo[1]
               vals == { a[i] : i \in 1..Len(a) }
           IN /\ pinfo # None
              /\ Len(groups) = Cardinality(vals)
              /\ \A k \in 1..Len(groups) :
                   \E v \in vals :
                     /\ GroupSet(groups[k]) = { i \in 0..(Len(a) - 1) : a[i + 1] = v }
                     /\ Len(groups[k]) = Cardinality(GroupSet(groups[k]))
                     /\ Cardinality({ w \in vals : w < v }) = k - 1
              /\ \A k, l \in 1..Len(groups) :
                   k # l => GroupSet(groups[k]) \cap GroupSet(groups[l]) = {}
              /\ UNION { GroupSet(groups[k]) : k \in 1..Len(groups) } = 0..(Len(a) - 1)

\* C29 witness: nearest = [4, 0, 4] gave the groups [1] and [2, 0], the
\* sort having put index 2 before index 0.
C29_Witness ==
    /\ ppc = "returned" /\ nearest = Some(<<4, 0, 4>>)
    /\ pinfo = Some(<< <<1>>, <<2, 0>> >>)

-----------------------------------------------------------------------------
(* Claims about read_source_spaces.                                        *)

\* C28: when read_source_spaces has returned or raised, a file it opened
\* itself is closed and a descriptor it was given is open; and when the
\* number of vertices or the coordinate frame of a source space is missing,
\* it has raised ValueError.
C28_ClosesWhatItOpened ==
    spc \in {"returned", "raised"} =>
      /\ ssarg.by_name => sfid = "closed"
      /\ ~ssarg.by_name => sfid = "open"
      /\ (ssarg.spaces > 0 /\ (~ssarg.tags.has_np \/ ~ssarg.tags.has_coord)) =>
           (spc = "raised" /\ sexc = "ValueError")

\* C30: when _read_one_source_space has returned, 'tris' is the
\* triangulation read if ntri > 0 and None if ntri is 0; and when the other
\* tags are in order and the triangulation has ntri > 0 and another number
\* of rows, it has raised ValueError.
C30_TrisEntry ==
    this # NoSpace =>
      /\ (this.exc = "" /\ ssarg.tags.ntri > 0) => this.tris = "data"
      /\ (this.exc = "" /\ ssarg.tags.ntri = 0) => this.tris = "None"
      /\ (/\ ssarg.tags.ntri > 0 /\ ssarg.tags.tris = "wrong"
          /\ ssarg.tags.has_np /\ ssarg.tags.has_coord
          /\ ssarg.tags.points = "ok" /\ ssarg.tags.normals = "ok") =>
           this.exc = "ValueError"

=============================================================================
